---------------------------- MODULE Spec2Model ----------------------------
(***************************************************************************)
(* A model of the iogb Game Boy emulator core: the interrupt controller,   *)
(* the timer, the PPU (Gpu), the cartridge, the bus (Interconnect), the    *)
(* CPU's step/dispatch logic and the GameBoy::run loop.                    *)
(*                                                                         *)
(* Components are modelled as records and their methods as operators that  *)
(* take the record(s) and return the new record(s).  A Rust panic is the   *)
(* value "panic" in the field fault; a panicked machine does nothing more. *)
(* Large arrays (WRAM, HRAM, VRAM, OAM, framebuffer, ROM) are functions    *)
(* whose domain holds the non-zero cells only; every other cell reads 0.   *)
(***************************************************************************)
EXTENDS Integers, Sequences, FiniteSets, TLC

--------------------------------------------------------------------------
(* Fixed-width integer helpers.                                            *)

RECURSIVE AndN(_, _, _)
AndN(a, b, n) ==
    IF n = 0 THEN 0
    ELSE (IF a % 2 = 1 /\ b % 2 = 1 THEN 1 ELSE 0) + 2 * AndN(a \div 2, b \div 2, n - 1)

RECURSIVE OrN(_, _, _)
OrN(a, b, n) ==
    IF n = 0 THEN 0
    ELSE (IF a % 2 = 1 \/ b % 2 = 1 THEN 1 ELSE 0) + 2 * OrN(a \div 2, b \div 2, n - 1)

RECURSIVE XorN(_, _, _)
XorN(a, b, n) ==
    IF n = 0 THEN 0
    ELSE (IF (a % 2) # (b % 2) THEN 1 ELSE 0) + 2 * XorN(a \div 2, b \div 2, n - 1)

BitAnd(a, b) == AndN(a, b, 16)
BitOr(a, b) == OrN(a, b, 16)
BitXor(a, b) == XorN(a, b, 16)
Not8(a) == 255 - a
Bit(v, i) == (v \div (2 ^ i)) % 2
Wrap8(v) == v % 256
Wrap16(v) == v % 65536
\* `v as i8` of a byte, as a mathematical integer
AsI8(v) == IF v >= 128 THEN v - 256 ELSE v
\* `v as i16` of a u16
AsI16(v) == IF v >= 32768 THEN v - 65536 ELSE v
BoolToInt(b) == IF b THEN 1 ELSE 0

\* A u32 as its two 16-bit halves, so that values near 2^32 can be held.
\* U32(n) is the u32 of an integer 0 <= n < 2^31.
U32(n) == [hi |-> n \div 65536, lo |-> n % 65536]
U32_MAX == [hi |-> \hFFFF, lo |-> \hFFFF]
\* a + n for a u32 a and an integer 0 <= n < 2^16: whether it overflows, and
\* the wrapped sum
U32_add_overflows(a, n) == a.hi = \hFFFF /\ a.lo + n > \hFFFF
U32_add(a, n) ==
    [hi |-> (a.hi + ((a.lo + n) \div 65536)) % 65536, lo |-> (a.lo + n) % 65536]
\* a > b, a >= b
U32_gt(a, b) == a.hi > b.hi \/ (a.hi = b.hi /\ a.lo > b.lo)
U32_ge(a, b) == a = b \/ U32_gt(a, b)
\* a - n for a >= n, 0 <= n < 2^16
U32_sub(a, n) ==
    IF a.lo >= n THEN [hi |-> a.hi, lo |-> a.lo - n]
    ELSE [hi |-> a.hi - 1, lo |-> a.lo + 65536 - n]

\* The element of a one-element set.  `The({e(x) : x \in {v}})` is e with v
\* computed once and named x: a Rust `let x = v;` followed by e.
The(S) == CHOOSE x \in S : TRUE

\* Sparse arrays: the domain holds the non-zero cells.
Empty == <<>>
Get(f, i) == IF i \in DOMAIN f THEN f[i] ELSE 0
Put(f, i, v) ==
    IF v = 0 THEN [j \in DOMAIN f \ {i} |-> f[j]]
    ELSE [j \in DOMAIN f \cup {i} |-> IF j = i THEN v ELSE f[j]]

--------------------------------------------------------------------------
(* interrupt/interrupt.rs                                                  *)

VBlank == "VBlank"
LCDCStat == "LCDCStat"
TimerInt == "Timer"
Serial == "Serial"
Joypad == "Joypad"
NoInterrupt == "None"
InvalidInterrupt == "Invalid"
Interrupts == <<VBlank, LCDCStat, TimerInt, Serial, Joypad>>

\* enum Interrupt: the discriminant (`int as u8`)
Interrupt_bit(int) ==
    CASE int = VBlank -> 1
      [] int = LCDCStat -> 2
      [] int = TimerInt -> 4
      [] int = Serial -> 8
      [] int = Joypad -> 16

Interrupt_get_addr(int) ==
    CASE int = VBlank -> \h0040
      [] int = LCDCStat -> \h0048
      [] int = TimerInt -> \h0050
      [] int = Serial -> \h0058
      [] int = Joypad -> \h0060

InterruptController_new == [ime |-> FALSE, iflag |-> 0, ie |-> 0]

\* The first kind, in bit order, whose bit is set in IF & IE; "None" when
\* nothing is pending or IME is off; "Invalid" is the panic branch.
get_interrupt(ic) ==
    LET interrupt == BitAnd(ic.iflag, ic.ie) IN
    IF interrupt = 0 \/ ~ic.ime THEN NoInterrupt
    ELSE IF BitAnd(interrupt, 1) = 1 THEN VBlank
    ELSE IF BitAnd(interrupt, 2) = 2 THEN LCDCStat
    ELSE IF BitAnd(interrupt, 4) = 4 THEN TimerInt
    ELSE IF BitAnd(interrupt, 8) = 8 THEN Serial
    ELSE IF BitAnd(interrupt, 16) = 16 THEN Joypad
    ELSE InvalidInterrupt

\* A controller that leaves the acknowledged bit pending
Keep_interrupt(ic, int) == ic

reset_interrupt(ic, int) ==
    [ic EXCEPT !.iflag = BitAnd(ic.iflag, Not8(Interrupt_bit(int)))]

\* A controller that forgets what was pending when a kind is requested
Request_replace(ic, int) == [ic EXCEPT !.iflag = Interrupt_bit(int)]

request_interrupt(ic, int) ==
    [ic EXCEPT !.iflag = BitOr(ic.iflag, Interrupt_bit(int))]

\* Not in the sources at hand (called by the bus for 0xFFFF and by EI/DI):
\* "enable_all(mask) sets IE".
enable_all_interrupts(ic, val) == [ic EXCEPT !.ie = val]

\* Timer and Gpu only ever call request_interrupt on the controller they are
\* handed: their step operators return the kinds requested, in order, and
\* the caller applies them.
RECURSIVE RequestAll(_, _)
RequestAll(ic, reqs) ==
    IF reqs = <<>> THEN ic
    ELSE RequestAll(request_interrupt(ic, Head(reqs)), Tail(reqs))

--------------------------------------------------------------------------
(* timer/timer.rs                                                          *)

Freq4096 == "Freq4096"
Freq262144 == "Freq262144"
Freq65536 == "Freq65536"
Freq16384 == "Freq16384"

\* The discriminants of InputClockFreq: the input clock in Hz
InputClockFreq_hz(f) ==
    CASE f = Freq4096 -> 4096
      [] f = Freq262144 -> 262144
      [] f = Freq65536 -> 65536
      [] f = Freq16384 -> 16384

InputClockFreq_to_cycles(f) ==
    CASE f = Freq4096 -> 256
      [] f = Freq262144 -> 4
      [] f = Freq65536 -> 16
      [] f = Freq16384 -> 64

Timer_new ==
    [counter |-> 0, modulo |-> 0, div |-> 0, idiv |-> 0, icounter |-> 0,
     enabled |-> FALSE, input_freq |-> Freq4096]

Timer_get_div(t) == t.div
Timer_set_div(t, val) == [t EXCEPT !.div = 0]
Timer_get_tima(t) == t.counter
Timer_set_tima(t, val) == [t EXCEPT !.counter = val]
Timer_get_tma(t) == t.modulo
Timer_set_tma(t, val) == [t EXCEPT !.modulo = val]

Timer_get_tac(t) ==
    LET ics == CASE t.input_freq = Freq4096 -> \h00
                 [] t.input_freq = Freq262144 -> \h01
                 [] t.input_freq = Freq65536 -> \h10
                 [] t.input_freq = Freq16384 -> \h11
    IN BitOr(BoolToInt(t.enabled) * 4, ics)

\* set_tac matches on val >> 2; any other value hits `_ => panic!()`.
Timer_set_tac_panics(val) == (val \div 4) \notin {\h00, \h01, \h10, \h11}

Timer_set_tac(t, val) ==
    LET sel == val \div 4 IN
    [t EXCEPT !.input_freq = CASE sel = \h00 -> Freq4096
                               [] sel = \h01 -> Freq262144
                               [] sel = \h10 -> Freq65536
                               [] sel = \h11 -> Freq16384
                               [] OTHER -> t.input_freq,
              !.enabled = BitAnd(val, \h01) # 0]

Timer_step_div(t, cycles) ==
    LET idiv == t.idiv + cycles IN
    IF idiv >= \hFF
    THEN [t EXCEPT !.div = Wrap8(t.div + 1), !.idiv = idiv - \hFF]
    ELSE [t EXCEPT !.idiv = idiv]

\* A timer of which only DIV runs
Timer_only_div(t, cycles) == [timer |-> Timer_step_div(t, cycles), reqs |-> <<>>]

\* Timer::step: [timer, reqs].  icounter is a u32 that is only ever added
\* to; it never exceeds Clock.cycles, whose overflow Clock_add_cycles models.
Timer_step(t, cycles) ==
    LET t1 == Timer_step_div(t, cycles) IN
    IF ~t1.enabled THEN [timer |-> t1, reqs |-> <<>>]
    ELSE
      LET icounter == t1.icounter + cycles
          t2 == [t1 EXCEPT !.icounter = icounter]
      IN IF icounter >= InputClockFreq_to_cycles(t2.input_freq)
         THEN IF t2.counter # \hFF
              THEN [timer |-> [t2 EXCEPT !.counter = Wrap8(t2.counter + 1)], reqs |-> <<>>]
              ELSE [timer |-> [t2 EXCEPT !.counter = t2.modulo], reqs |-> <<TimerInt>>]
         ELSE [timer |-> t2, reqs |-> <<>>]

--------------------------------------------------------------------------
(* bootrom/bootrom.rs                                                      *)

\* Bootrom { buf: Option<Vec<u8>> }: used = buf.is_some()
Bootrom_none == [used |-> FALSE, buf |-> Empty]
Bootrom_some(bytes) == [used |-> TRUE, buf |-> bytes]

Bootrom_readb(b, addr) == IF b.used THEN Get(b.buf, addr) ELSE \hFF
Bootrom_is_used(b) == b.used

--------------------------------------------------------------------------
(* cartridge/cartridge.rs                                                  *)

ROM_BANK_SZ == \h4000
RAM_BANK_SZ == \h2000
Mbc_None == "None"
Mbc_One == "One"

\* Cartridge::new for a ROM image of rom_len bytes whose header names mbc
\* and RAM-size code 0x00 (the only one new() accepts: ram is empty).
Cartridge_new(mbc, rom, rom_len) ==
    [mbc |-> mbc, rom |-> rom, rom_len |-> rom_len, rom_bank |-> 1,
     ram |-> Empty, ram_len |-> 0, ram_bank |-> 0, ram_enable |-> FALSE,
     rom_mode_select |-> FALSE]

Cartridge_read_rom(c, addr) ==
    LET a == IF c.mbc = Mbc_None THEN addr
             ELSE IF addr < ROM_BANK_SZ THEN addr
             ELSE OrN(AndN(addr, \h3FFF, 16), c.rom_bank * ROM_BANK_SZ, 24)
    IN Get(c.rom, AndN(a, c.rom_len - 1, 24))

\* The index read_ram uses when RAM is enabled.
Cartridge_ram_index(c, addr) ==
    LET bank == IF c.rom_mode_select THEN 0 ELSE c.ram_bank
    IN AndN(addr, RAM_BANK_SZ - 1, 16) + bank * RAM_BANK_SZ

\* self.ram[..] indexes an empty Vec: out of bounds
Cartridge_read_ram_panics(c, addr) ==
    c.ram_enable /\ Cartridge_ram_index(c, addr) >= c.ram_len

Cartridge_read_ram(c, addr) ==
    IF c.ram_enable THEN Get(c.ram, Cartridge_ram_index(c, addr))
    ELSE 0

\* An MBC1 that stores the five bank bits as written, zero included
Write_rom_raw(c, addr, val) ==
    IF c.mbc = Mbc_None THEN c
    ELSE IF addr <= \h1FFF THEN [c EXCEPT !.ram_enable = (val = \h0A)]
    ELSE IF addr <= \h3FFF THEN
        [c EXCEPT !.rom_bank = BitOr(BitAnd(c.rom_bank, \h60), BitAnd(val, \h1F))]
    ELSE IF addr <= \h5FFF THEN
        IF c.rom_mode_select
        THEN [c EXCEPT !.rom_bank =
                 BitOr(BitAnd(c.rom_bank, \h1F), Wrap8(BitAnd(val, \h03) * 32))]
        ELSE [c EXCEPT !.ram_bank = BitAnd(val, \h03)]
    ELSE [c EXCEPT !.rom_mode_select = (BitAnd(val, \h01) = 1)]

\* write_rom.  The interconnect passes addresses 0x0000..0x7FFF only.
Cartridge_write_rom(c, addr, val) ==
    IF c.mbc = Mbc_None THEN c
    ELSE IF addr <= \h1FFF THEN [c EXCEPT !.ram_enable = (val = \h0A)]
    ELSE IF addr <= \h3FFF THEN
        [c EXCEPT !.rom_bank =
            BitOr(BitAnd(c.rom_bank, \h60),
                  IF BitAnd(val, \h1F) = 0 THEN 1 ELSE BitAnd(val, \h1F))]
    ELSE IF addr <= \h5FFF THEN
        IF c.rom_mode_select
        THEN [c EXCEPT !.rom_bank =
                 BitOr(BitAnd(c.rom_bank, \h1F), Wrap8(BitAnd(val, \h03) * 32))]
        ELSE [c EXCEPT !.ram_bank = BitAnd(val, \h03)]
    ELSE [c EXCEPT !.rom_mode_select = (BitAnd(val, \h01) = 1)]

Cartridge_write_ram(c, addr, val) == c

--------------------------------------------------------------------------
(* gpu/gpu.rs                                                              *)

SCREEN_W == 160
SCREEN_H == 144
VRAM_TILES == 384
TILE_MAP_SZ == \h400
SPRITE_COUNT == 40
HBLANK_CYCLES == 204
ACCESSING_OAM_CYCLES == 80
ACCESSING_VRAM_CYCLES == 172
VBLANK_FULL_LINE_CYCLES == 576

Mode_HBlank == "HBlank"
Mode_VBlank == "VBlank"
Mode_AccessingOam == "AccessingOam"
Mode_AccessingVram == "AccessingVram"

Mode_as_flag(mode) ==
    CASE mode = Mode_HBlank -> 0
      [] mode = Mode_VBlank -> 1
      [] mode = Mode_AccessingOam -> 2
      [] mode = Mode_AccessingVram -> 3

\* bitflags StatReg
STAT_CMP == 4
STAT_HBLANK_INT == 8
STAT_VBLANK_INT == 16
STAT_OAM_INT == 32
STAT_CMP_INT == 64
\* StatReg::from_bits_truncate: the bits of the five flags
StatReg_from_bits_truncate(val) == BitAnd(val, \h7C)
\* SpriteFlags::from_bits_truncate: the bits of the four flags
SpriteFlags_from_bits_truncate(val) == BitAnd(val, \hF0)

\* enum Colour: White = 0, LightGrey = 1, DarkGrey = 2, Black = 3
Palette_new == [reg |-> 0, darkest |-> 0, dark |-> 0, light |-> 0, lightest |-> 0]

Palette_lookup(p, colour) ==
    CASE colour = 3 -> p.darkest
      [] colour = 2 -> p.dark
      [] colour = 1 -> p.light
      [] colour = 0 -> p.lightest

Palette_set_reg(p, val) ==
    [reg |-> val,
     darkest |-> (val \div 64) % 4,
     dark |-> (val \div 16) % 4,
     light |-> (val \div 4) % 4,
     lightest |-> val % 4]

Gpu_new ==
    [ticks |-> ACCESSING_OAM_CYCLES, mode |-> Mode_AccessingOam,
     oam |-> Empty, buffer |-> Empty,
     lcd_enable |-> FALSE, win_tile_map |-> FALSE, win_enable |-> FALSE,
     bg_tile_set |-> FALSE, bg_tile_map |-> FALSE, obj_size |-> 8,
     obj_enable |-> FALSE, bg_enable |-> FALSE, stat |-> 0,
     scroll_x |-> 0, scroll_y |-> 0, win_x |-> 0, win_y |-> 0,
     ly |-> 0, lyc |-> 0,
     bgp |-> Palette_new, obp0 |-> Palette_new, obp1 |-> Palette_new,
     tile_set |-> Empty, tile_map1 |-> Empty, tile_map2 |-> Empty]

\* tile_set[addr >> 4].pixels[addr % 16]: cell (addr >> 4) * 16 + addr % 16
TileCell(addr) == ((addr \div 16) * 16) + (addr % 16)

Gpu_read_tileset(g, addr) ==
    IF g.mode = Mode_AccessingVram THEN \hFF
    ELSE Get(g.tile_set, TileCell(addr))

Gpu_write_tileset(g, addr, val) ==
    IF g.mode = Mode_AccessingVram THEN g
    ELSE [g EXCEPT !.tile_set = Put(g.tile_set, TileCell(addr), val)]

Gpu_read_tilemap1(g, addr) ==
    IF g.mode = Mode_AccessingVram THEN \hFF
    ELSE Get(g.tile_map1, addr)

\* A tile map write that ignores the mode
Ungated_write_tilemap1(g, addr, val) ==
    [g EXCEPT !.tile_map1 = Put(g.tile_map1, addr, val)]

Gpu_write_tilemap1(g, addr, val) ==
    IF g.mode = Mode_AccessingVram THEN g
    ELSE [g EXCEPT !.tile_map1 = Put(g.tile_map1, addr, val)]

Gpu_read_tilemap2(g, addr) ==
    IF g.mode = Mode_AccessingVram THEN \hFF
    ELSE Get(g.tile_map2, addr)

Gpu_write_tilemap2(g, addr, val) ==
    IF g.mode = Mode_AccessingVram THEN g
    ELSE [g EXCEPT !.tile_map2 = Put(g.tile_map2, addr, val)]

\* An LCDC write that leaves LY alone when the LCD is switched off
Lcdc_keep_ly(g, val) ==
    [g EXCEPT !.lcd_enable = BitAnd(val, \h80) # 0,
              !.win_tile_map = BitAnd(val, \h40) # 0,
              !.win_enable = BitAnd(val, \h20) # 0,
              !.bg_tile_set = BitAnd(val, \h10) # 0,
              !.bg_tile_map = BitAnd(val, \h08) # 0,
              !.obj_size = BoolToInt(BitAnd(val, \h04) = 16),
              !.obj_enable = BitAnd(val, \h02) # 0,
              !.bg_enable = BitAnd(val, \h01) # 0]

Gpu_write_lcdc_reg(g, val) ==
    LET new_lcd_enable == BitAnd(val, \h80) # 0 IN
    [g EXCEPT !.ly = IF g.lcd_enable /\ ~new_lcd_enable THEN 0 ELSE g.ly,
              !.lcd_enable = new_lcd_enable,
              !.win_tile_map = BitAnd(val, \h40) # 0,
              !.win_enable = BitAnd(val, \h20) # 0,
              !.bg_tile_set = BitAnd(val, \h10) # 0,
              !.bg_tile_map = BitAnd(val, \h08) # 0,
              !.obj_size = BoolToInt(BitAnd(val, \h04) = 16),
              !.obj_enable = BitAnd(val, \h02) # 0,
              !.bg_enable = BitAnd(val, \h01) # 0]

Gpu_read_lcdc_reg(g) ==
    BoolToInt(g.lcd_enable) * 128 + BoolToInt(g.win_tile_map) * 64 +
    BoolToInt(g.win_enable) * 32 + BoolToInt(g.bg_tile_set) * 16 +
    BoolToInt(g.bg_tile_map) * 8 + BoolToInt(g.obj_size = 16) * 4 +
    BoolToInt(g.obj_enable) * 2 + BoolToInt(g.bg_enable)

Gpu_write_wx(g, val) == [g EXCEPT !.win_x = val]
Gpu_write_wy(g, val) == [g EXCEPT !.win_y = val]
Gpu_read_wx(g) == g.win_x
Gpu_read_wy(g) == g.win_y
Gpu_write_scx(g, val) == [g EXCEPT !.scroll_x = val]
Gpu_write_scy(g, val) == [g EXCEPT !.scroll_y = val]
Gpu_read_scx(g) == g.scroll_x
Gpu_read_scy(g) == g.scroll_y
Gpu_read_ly(g) == g.ly
Gpu_write_ly(g, val) == [g EXCEPT !.ly = val]
Gpu_read_lyc(g) == g.lyc
Gpu_write_lyc(g, val) == [g EXCEPT !.lyc = val]

Gpu_read_stat(g) == BitOr(g.stat, Mode_as_flag(g.mode))

Gpu_write_stat(g, val) ==
    [g EXCEPT !.stat = BitOr(BitAnd(g.stat, STAT_CMP), StatReg_from_bits_truncate(val))]

Gpu_read_bgp(g) == g.bgp.reg
Gpu_read_obp0(g) == g.obp0.reg
Gpu_read_obp1(g) == g.obp1.reg
Gpu_write_bgp(g, val) == [g EXCEPT !.bgp = Palette_set_reg(g.bgp, val)]
Gpu_write_obp0(g, val) == [g EXCEPT !.obp0 = Palette_set_reg(g.obp0, val)]
Gpu_write_obp1(g, val) == [g EXCEPT !.obp1 = Palette_set_reg(g.obp1, val)]

\* A PPU that never compares LY with LYC
Skip_cmp(g) == [gpu |-> g, reqs |-> <<>>]

\* check_cmp_int: [gpu, reqs]
Gpu_check_cmp_int(g) ==
    IF g.ly # g.lyc
    THEN [gpu |-> [g EXCEPT !.stat = BitAnd(g.stat, Not8(STAT_CMP))], reqs |-> <<>>]
    ELSE [gpu |-> [g EXCEPT !.stat = BitOr(g.stat, STAT_CMP)],
          reqs |-> IF BitAnd(g.stat, STAT_CMP_INT) # 0 THEN <<LCDCStat>> ELSE <<>>]

\* A PPU that enters its modes without requesting the VBlank interrupt
Change_mode_quiet(g, mode) ==
    [gpu |-> [g EXCEPT !.mode = mode,
                       !.ticks = g.ticks +
                           (CASE mode = Mode_HBlank -> HBLANK_CYCLES
                              [] mode = Mode_VBlank -> VBLANK_FULL_LINE_CYCLES
                              [] mode = Mode_AccessingOam -> ACCESSING_OAM_CYCLES
                              [] mode = Mode_AccessingVram -> ACCESSING_VRAM_CYCLES)],
     reqs |-> IF (mode = Mode_VBlank /\ BitAnd(g.stat, STAT_VBLANK_INT) # 0)
                 \/ (mode = Mode_AccessingOam /\ BitAnd(g.stat, STAT_OAM_INT) # 0)
              THEN <<LCDCStat>> ELSE <<>>]

\* A PPU that enters HBlank where it should enter VRAM-access, and the
\* other way round
Change_mode_swapped(g, mode) ==
    Change_mode_quiet(g, CASE mode = Mode_HBlank -> Mode_AccessingVram
                           [] mode = Mode_AccessingVram -> Mode_HBlank
                           [] OTHER -> mode)

\* change_mode: [gpu, reqs]
Gpu_change_mode(g, mode) ==
    CASE mode = Mode_HBlank ->
           [gpu |-> [g EXCEPT !.mode = mode, !.ticks = g.ticks + HBLANK_CYCLES],
            reqs |-> <<>>]
      [] mode = Mode_VBlank ->
           [gpu |-> [g EXCEPT !.mode = mode, !.ticks = g.ticks + VBLANK_FULL_LINE_CYCLES],
            reqs |-> <<VBlank>> \o
                     (IF BitAnd(g.stat, STAT_VBLANK_INT) # 0 THEN <<LCDCStat>> ELSE <<>>)]
      [] mode = Mode_AccessingOam ->
           [gpu |-> [g EXCEPT !.mode = mode, !.ticks = g.ticks + ACCESSING_OAM_CYCLES],
            reqs |-> IF BitAnd(g.stat, STAT_OAM_INT) # 0 THEN <<LCDCStat>> ELSE <<>>]
      [] mode = Mode_AccessingVram ->
           [gpu |-> [g EXCEPT !.mode = mode, !.ticks = g.ticks + ACCESSING_VRAM_CYCLES],
            reqs |-> <<>>]

\* render_background, pixel i of the line: the index into the tile map, the
\* tile picked, and the shade written.  The renderer reads tile_map and
\* tile_set directly, not through the mode-gated accessors.
Bg_y(g) == Wrap8(g.ly + g.scroll_y)
Bg_x(g, i) == i + g.scroll_x
Bg_map_index(g, i) == ((Bg_y(g) \div 8) * 32) + (Bg_x(g, i) \div 8)
Bg_tile_num(g, i) ==
    Get(IF ~g.bg_tile_map THEN g.tile_map1 ELSE g.tile_map2, Bg_map_index(g, i))
Bg_tile(g, i) ==
    IF g.bg_tile_set THEN Bg_tile_num(g, i)
    ELSE AsI8(Bg_tile_num(g, i)) + 128
Bg_colour(g, i) ==
    LET bit == Bg_x(g, i) % 8
        tile_row == (Bg_y(g) % 8) * 2
        row0 == Get(g.tile_set, Bg_tile(g, i) * 16 + tile_row)
        row1 == Get(g.tile_set, Bg_tile(g, i) * 16 + tile_row + 1)
        colour_number == OrN(Bit(row0, bit) * 2, Bit(row1, bit), 8)
    IN Palette_lookup(g.bgp, colour_number)

\* An index out of bounds while rendering the line at buffer offset start
Gpu_render_background_panics(g, start) ==
    g.bg_enable /\
    \E i \in 0..(SCREEN_W - 1) :
        \/ Bg_map_index(g, i) >= TILE_MAP_SZ
        \/ start + i >= SCREEN_W * SCREEN_H

Gpu_render_background(g, start) ==
    IF ~g.bg_enable THEN g
    ELSE
      LET line == start..(start + SCREEN_W - 1)
          colour == [i \in 0..(SCREEN_W - 1) |-> Bg_colour(g, i)]
          lit == {k \in line : colour[k - start] # 0}
      IN [g EXCEPT !.buffer =
            [k \in (DOMAIN g.buffer \ line) \cup lit |->
                IF k \in line THEN colour[k - start] ELSE g.buffer[k]]]

\* render_window and render_sprites return without drawing
Gpu_render_line_panics(g) == Gpu_render_background_panics(g, g.ly * SCREEN_W)
Gpu_render_line(g) == Gpu_render_background(g, g.ly * SCREEN_W)

\* A step's result: the gpu, the interrupts requested, and whether it panicked.
GpuResult(g, reqs) == [gpu |-> g, reqs |-> reqs, fault |-> "none"]
GpuPanic(g) == [gpu |-> g, reqs |-> <<>>, fault |-> "panic"]

\* r: the [gpu, reqs] of change_mode, as a step's result
GpuOk(r) == GpuResult(r.gpu, r.reqs)

\* r: a [gpu, reqs] result; then check_cmp_int on its gpu
ThenCheckCmp(r) ==
    LET c == Gpu_check_cmp_int(r.gpu) IN GpuResult(c.gpu, r.reqs \o c.reqs)

\* Gpu::step.  oc: the build checks integer overflow (`self.ly += 1`).
Gpu_step(g, cycles, oc) ==
    IF ~g.lcd_enable THEN GpuResult(g, <<>>)
    ELSE
      LET g1 == [g EXCEPT !.ticks = g.ticks - cycles] IN
      IF g1.ticks > 0 THEN GpuResult(g1, <<>>)
      ELSE CASE g1.mode = Mode_HBlank ->
                  IF g1.ly = 255 /\ oc THEN GpuPanic(g1)
                  ELSE LET g2 == [g1 EXCEPT !.ly = Wrap8(g1.ly + 1)] IN
                       IF g2.ly >= SCREEN_H
                       THEN ThenCheckCmp(Gpu_change_mode(g2, Mode_VBlank))
                       ELSE ThenCheckCmp(Gpu_change_mode(g2, Mode_AccessingOam))
             [] g1.mode = Mode_VBlank ->
                  IF g1.ly = 255 /\ oc THEN GpuPanic(g1)
                  ELSE LET g2 == [g1 EXCEPT !.ly = Wrap8(g1.ly + 1)] IN
                       IF g2.ly <= 153
                       THEN ThenCheckCmp(
                              [gpu |-> [g2 EXCEPT !.ticks = g2.ticks + VBLANK_FULL_LINE_CYCLES],
                               reqs |-> <<>>])
                       ELSE ThenCheckCmp(
                              Gpu_change_mode([g2 EXCEPT !.ly = 0], Mode_AccessingOam))
             [] g1.mode = Mode_AccessingOam ->
                  GpuOk(Gpu_change_mode(g1, Mode_AccessingVram))
             [] g1.mode = Mode_AccessingVram ->
                  IF Gpu_render_line_panics(g1) THEN GpuPanic(g1)
                  ELSE GpuOk(Gpu_change_mode(Gpu_render_line(g1), Mode_HBlank))

Gpu_read_oam(g, addr) ==
    IF g.mode = Mode_AccessingVram \/ g.mode = Mode_AccessingOam THEN \hFF
    ELSE Get(g.oam, addr)

\* oam[addr >> 2]: y, x, tile_index, flags for addr % 4 = 0, 1, 2, 3
Gpu_write_oam(g, addr, val) ==
    IF g.mode = Mode_AccessingVram \/ g.mode = Mode_AccessingOam THEN g
    ELSE [g EXCEPT !.oam =
            Put(g.oam, addr,
                IF addr % 4 = 3 THEN SpriteFlags_from_bits_truncate(val) ELSE val)]

--------------------------------------------------------------------------
(* interconnect/interconnect.rs                                            *)
(* The machine record m holds the Interconnect's fields (brom, wram, zram, *)
(* cart, boot_mode, ic, timer, gpu), the Cpu's registers (regs), whether   *)
(* the Cpu's Clock (clk), whether the build checks integer overflow (oc)   *)
(* and whether it has panicked (fault).                                    *)

WRAM_SZ == \h2000
ZRAM_SZ == \h7F

NoFault == "none"
Panic(m) == [m EXCEPT !.fault = "panic"]
\* The panic of a checked build when a cycle counter overflows
Overflow(m) == [m EXCEPT !.fault = "overflow"]
Ok(m) == m.fault = NoFault

\* Interconnect::readb panics: no arm for 0xFF50..0xFF7F, and the cartridge
\* RAM index.
Readb_panics(m, addr) ==
    \/ addr >= \hFF50 /\ addr <= \hFF7F
    \/ addr >= \hA000 /\ addr <= \hBFFF /\ Cartridge_read_ram_panics(m.cart, addr)

Readb(m, addr) ==
    CASE addr <= \h00FF ->
           IF m.boot_mode THEN Bootrom_readb(m.brom, addr)
           ELSE Cartridge_read_rom(m.cart, addr)
      [] addr >= \h0100 /\ addr <= \h7FFF -> Cartridge_read_rom(m.cart, addr)
      [] addr >= \h8000 /\ addr <= \h97FF -> Gpu_read_tileset(m.gpu, BitAnd(addr, \h17FF))
      [] addr >= \h9800 /\ addr <= \h9BFF -> Gpu_read_tilemap1(m.gpu, BitAnd(addr, \h03FF))
      [] addr >= \h9C00 /\ addr <= \h9FFF -> Gpu_read_tilemap2(m.gpu, BitAnd(addr, \h03FF))
      [] addr >= \hA000 /\ addr <= \hBFFF -> Cartridge_read_ram(m.cart, addr)
      [] addr >= \hC000 /\ addr <= \hDFFF -> Get(m.wram, BitAnd(addr, \h1FFF))
      [] addr >= \hE000 /\ addr <= \hFDFF -> Get(m.wram, BitAnd(addr, \h1FFF))
      [] addr >= \hFE00 /\ addr <= \hFE9F -> Gpu_read_oam(m.gpu, BitAnd(addr, \h9F))
      [] addr >= \hFEA0 /\ addr <= \hFEFF -> 0
      [] addr >= \hFF00 /\ addr <= \hFF03 -> 0
      [] addr = \hFF04 -> Timer_get_div(m.timer)
      [] addr = \hFF05 -> Timer_get_tima(m.timer)
      [] addr = \hFF06 -> Timer_get_tma(m.timer)
      [] addr = \hFF07 -> Timer_get_tac(m.timer)
      [] addr >= \hFF08 /\ addr <= \hFF0E -> 0
      [] addr = \hFF0F -> m.ic.iflag
      [] addr >= \hFF10 /\ addr <= \hFF3F -> 0
      [] addr = \hFF40 -> Gpu_read_lcdc_reg(m.gpu)
      [] addr = \hFF41 -> Gpu_read_stat(m.gpu)
      [] addr = \hFF42 -> Gpu_read_scy(m.gpu)
      [] addr = \hFF43 -> Gpu_read_scx(m.gpu)
      [] addr = \hFF44 -> Gpu_read_ly(m.gpu)
      [] addr = \hFF45 -> Gpu_read_lyc(m.gpu)
      [] addr = \hFF46 -> 0
      [] addr = \hFF47 -> Gpu_read_bgp(m.gpu)
      [] addr = \hFF48 -> Gpu_read_obp0(m.gpu)
      [] addr = \hFF49 -> Gpu_read_obp1(m.gpu)
      [] addr = \hFF4A -> Gpu_read_wy(m.gpu)
      [] addr = \hFF4B -> Gpu_read_wx(m.gpu)
      [] addr >= \hFF4C /\ addr <= \hFF4F -> 0
      [] addr >= \hFF50 /\ addr <= \hFF7F -> 0
      [] addr >= \hFF80 /\ addr <= \hFFFE -> Get(m.zram, BitAnd(addr, \h7F))
      [] addr = \hFFFF -> m.ic.ie

\* A read as a step of the machine: the machine, panicked if the read does
ReadChk(m, addr) == IF Ok(m) /\ Readb_panics(m, addr) THEN Panic(m) ELSE m

Writeb(m, addr, val) ==
    IF ~Ok(m) THEN m
    ELSE
    CASE addr <= \h7FFF -> [m EXCEPT !.cart = Cartridge_write_rom(m.cart, addr, val)]
      [] addr >= \h8000 /\ addr <= \h97FF ->
           [m EXCEPT !.gpu = Gpu_write_tileset(m.gpu, BitAnd(addr, \h17FF), val)]
      [] addr >= \h9800 /\ addr <= \h9BFF ->
           [m EXCEPT !.gpu = Gpu_write_tilemap1(m.gpu, BitAnd(addr, \h03FF), val)]
      [] addr >= \h9C00 /\ addr <= \h9FFF ->
           [m EXCEPT !.gpu = Gpu_write_tilemap2(m.gpu, BitAnd(addr, \h03FF), val)]
      [] addr >= \hA000 /\ addr <= \hBFFF ->
           [m EXCEPT !.cart = Cartridge_write_ram(m.cart, addr, val)]
      [] addr >= \hC000 /\ addr <= \hDFFF ->
           [m EXCEPT !.wram = Put(m.wram, BitAnd(addr, \h1FFF), val)]
      [] addr >= \hE000 /\ addr <= \hFDFF ->
           [m EXCEPT !.wram = Put(m.wram, BitAnd(addr, \h1FFF), val)]
      [] addr >= \hFE00 /\ addr <= \hFE9F ->
           [m EXCEPT !.gpu = Gpu_write_oam(m.gpu, BitAnd(addr, \h9F), val)]
      [] addr >= \hFEA0 /\ addr <= \hFEFF -> m
      [] addr >= \hFF00 /\ addr <= \hFF03 -> m
      [] addr = \hFF04 -> [m EXCEPT !.timer = Timer_set_div(m.timer, val)]
      [] addr = \hFF05 -> [m EXCEPT !.timer = Timer_set_tima(m.timer, val)]
      [] addr = \hFF06 -> [m EXCEPT !.timer = Timer_set_tma(m.timer, val)]
      [] addr = \hFF07 ->
           IF Timer_set_tac_panics(val) THEN Panic(m)
           ELSE [m EXCEPT !.timer = Timer_set_tac(m.timer, val)]
      [] addr >= \hFF08 /\ addr <= \hFF0E -> m
      [] addr = \hFF0F -> [m EXCEPT !.ic.iflag = val]
      [] addr >= \hFF10 /\ addr <= \hFF3F -> m
      [] addr = \hFF40 -> [m EXCEPT !.gpu = Gpu_write_lcdc_reg(m.gpu, val)]
      [] addr = \hFF41 -> [m EXCEPT !.gpu = Gpu_write_stat(m.gpu, val)]
      [] addr = \hFF42 -> [m EXCEPT !.gpu = Gpu_write_scy(m.gpu, val)]
      [] addr = \hFF43 -> [m EXCEPT !.gpu = Gpu_write_scx(m.gpu, val)]
      [] addr = \hFF44 -> [m EXCEPT !.gpu = Gpu_write_ly(m.gpu, val)]
      [] addr = \hFF45 -> [m EXCEPT !.gpu = Gpu_write_lyc(m.gpu, val)]
      [] addr = \hFF46 -> m
      [] addr = \hFF47 -> [m EXCEPT !.gpu = Gpu_write_bgp(m.gpu, val)]
      [] addr = \hFF48 -> [m EXCEPT !.gpu = Gpu_write_obp0(m.gpu, val)]
      [] addr = \hFF49 -> [m EXCEPT !.gpu = Gpu_write_obp1(m.gpu, val)]
      [] addr = \hFF4A -> [m EXCEPT !.gpu = Gpu_write_wy(m.gpu, val)]
      [] addr = \hFF4B -> [m EXCEPT !.gpu = Gpu_write_wx(m.gpu, val)]
      [] addr >= \hFF4C /\ addr <= \hFF4F -> m
      [] addr = \hFF50 -> [m EXCEPT !.boot_mode = ~(val = 1)]
      [] addr >= \hFF51 /\ addr <= \hFF7F -> m
      [] addr >= \hFF80 /\ addr <= \hFFFE ->
           [m EXCEPT !.zram = Put(m.zram, BitAnd(addr, \h7F), val)]
      [] addr = \hFFFF -> [m EXCEPT !.ic = enable_all_interrupts(m.ic, val)]

\* `addr + 1` on a u16: panics in a build with overflow checks, wraps otherwise
Addr_plus_1_overflows(m, addr) == addr = \hFFFF /\ m.oc

\* readw: readb(addr + 1) is evaluated first
Readw_panics(m, addr) ==
    \/ Addr_plus_1_overflows(m, addr)
    \/ Readb_panics(m, Wrap16(addr + 1))
    \/ Readb_panics(m, addr)

Readw(m, addr) == Readb(m, Wrap16(addr + 1)) * 256 + Readb(m, addr)

ReadwChk(m, addr) == IF Ok(m) /\ Readw_panics(m, addr) THEN Panic(m) ELSE m

Writew(m, addr, val) ==
    The({IF Ok(m1) /\ Addr_plus_1_overflows(m1, addr) THEN Panic(m1)
         ELSE Writeb(m1, Wrap16(addr + 1), val \div 256) :
         m1 \in {Writeb(m, addr, BitAnd(val, \hFF))}})

\* Interconnect::step: the timer, then the gpu, each handed the controller.
\* [m, reqs]: reqs are the interrupts the two requested, in order.
Interconnect_step(m, ticks) ==
    IF ~Ok(m) THEN [m |-> m, reqs |-> <<>>]
    ELSE
      The({[m |-> [m EXCEPT !.timer = t.timer, !.gpu = g.gpu,
                            !.ic = RequestAll(RequestAll(m.ic, t.reqs), g.reqs),
                            !.fault = g.fault],
            reqs |-> t.reqs \o g.reqs] :
           t \in {Timer_step(m.timer, ticks)},
           g \in {Gpu_step(m.gpu, ticks, m.oc)}})

\* fake_boot_rom: the (address, value) pairs it passes to writew, in order
FakeBootWrites ==
    << <<\hFF05, \h00>>, <<\hFF06, \h00>>, <<\hFF07, \h00>>, <<\hFF10, \h80>>,
       <<\hFF11, \hBF>>, <<\hFF12, \hF3>>, <<\hFF14, \hBF>>, <<\hFF16, \h3F>>,
       <<\hFF17, \h00>>, <<\hFF19, \hBF>>, <<\hFF1A, \h7F>>, <<\hFF1B, \hFF>>,
       <<\hFF1C, \h9F>>, <<\hFF1E, \hBF>>, <<\hFF20, \hFF>>, <<\hFF21, \h00>>,
       <<\hFF22, \h00>>, <<\hFF23, \hBF>>, <<\hFF24, \h77>>, <<\hFF25, \hF3>>,
       <<\hFF26, \hF1>>, <<\hFF40, \h91>>, <<\hFF42, \h00>>, <<\hFF43, \h00>>,
       <<\hFF45, \h00>>, <<\hFF47, \hFC>>, <<\hFF48, \hFF>>, <<\hFF49, \hFF>>,
       <<\hFF4A, \h00>>, <<\hFF4B, \h00>>, <<\hFFFF, \h00>> >>

RECURSIVE WritewAll(_, _)
WritewAll(m, ws) ==
    IF ws = <<>> \/ ~Ok(m) THEN m
    ELSE WritewAll(Writew(m, Head(ws)[1], Head(ws)[2]), Tail(ws))

Interconnect_fake_boot_rom(m) == WritewAll(m, FakeBootWrites)

Registers_default ==
    [a |-> 0, b |-> 0, c |-> 0, d |-> 0, e |-> 0, f |-> 0, h |-> 0, l |-> 0,
     pc |-> 0, sp |-> 0]

Interconnect_new(cart, bootrom, oc) ==
    LET m == [brom |-> bootrom, wram |-> Empty, zram |-> Empty, cart |-> cart,
              boot_mode |-> TRUE, ic |-> InterruptController_new,
              timer |-> Timer_new, gpu |-> Gpu_new,
              regs |-> Registers_default, clk |-> U32(0), oc |-> oc,
              fault |-> NoFault]
    IN IF ~Bootrom_is_used(m.brom) THEN Interconnect_fake_boot_rom(m) ELSE m

--------------------------------------------------------------------------
(* cpu/cpu.rs                                                              *)
(* Operators that read through the bus or fetch return [m, val].           *)

FLAG_C == \h10
FLAG_H == \h20
FLAG_N == \h40
FLAG_Z == \h80

\* Registers::readb / writeb: reg is one of "a","b","c","d","e","h","l"
Registers_readb(regs, reg) == regs[reg]
Registers_writeb(regs, reg, val) == [regs EXCEPT ![reg] = val]

Registers_readw(regs, reg) ==
    CASE reg = "PC" -> regs.pc
      [] reg = "SP" -> regs.sp
      [] reg = "AF" -> regs.a * 256 + regs.f
      [] reg = "BC" -> regs.b * 256 + regs.c
      [] reg = "DE" -> regs.d * 256 + regs.e
      [] reg = "HL" -> regs.h * 256 + regs.l

Registers_writew(regs, reg, val) ==
    CASE reg = "PC" -> [regs EXCEPT !.pc = val]
      [] reg = "SP" -> [regs EXCEPT !.sp = val]
      [] reg = "AF" -> [regs EXCEPT !.a = val \div 256, !.f = val % 256]
      [] reg = "BC" -> [regs EXCEPT !.b = val \div 256, !.c = val % 256]
      [] reg = "DE" -> [regs EXCEPT !.d = val \div 256, !.e = val % 256]
      [] reg = "HL" -> [regs EXCEPT !.h = val \div 256, !.l = val % 256]

\* A register update on a machine that has not panicked
SetRegs(m, regs) == IF Ok(m) THEN [m EXCEPT !.regs = regs] ELSE m
WriteRegW(m, reg, val) == SetRegs(m, Registers_writew(m.regs, reg, val))
WriteRegB(m, reg, val) == SetRegs(m, Registers_writeb(m.regs, reg, val))

Cpu_fake_boot_regs(m) ==
    WriteRegW(WriteRegW(WriteRegW(WriteRegW(WriteRegW(m,
        "AF", \h01B0), "BC", \h0013), "DE", \h00D8), "HL", \h014D), "SP", \hFFFE)

\* Cpu::new(interconnect)
Cpu_new(ic) == IF ~Bootrom_is_used(ic.brom) THEN Cpu_fake_boot_regs(ic) ELSE ic

\* GameBoy::new(cart, bootrom) in a build with (oc) or without overflow checks
GameBoy_new(cart, bootrom, oc) == Cpu_new(Interconnect_new(cart, bootrom, oc))

Val(m, val) == [m |-> m, val |-> val]

\* `self.regs.pc += n`: panics on overflow in a checked build, wraps otherwise
Pc_add(m, n) ==
    IF m.regs.pc + n > \hFFFF /\ m.oc THEN Panic(m)
    ELSE SetRegs(m, [m.regs EXCEPT !.pc = Wrap16(m.regs.pc + n)])

Cpu_fetchb(m) ==
    IF ~Ok(m) THEN Val(m, 0)
    ELSE IF Readb_panics(m, m.regs.pc) THEN Val(Panic(m), 0)
    ELSE Val(Pc_add(m, 1), Readb(m, m.regs.pc))

Cpu_fetchw(m) ==
    IF ~Ok(m) THEN Val(m, 0)
    ELSE IF Readw_panics(m, m.regs.pc) THEN Val(Panic(m), 0)
    ELSE Val(Pc_add(m, 2), Readw(m, m.regs.pc))

Cpu_set_flag(m, flag, enable) ==
    SetRegs(m, [m.regs EXCEPT !.f = IF enable THEN BitOr(m.regs.f, flag)
                                     ELSE BitAnd(m.regs.f, Not8(flag))])

Cpu_check_flag(m, flag) == BitAnd(m.regs.f, flag) > 0

Condition_test(m, c) ==
    CASE c = "NZ" -> ~Cpu_check_flag(m, FLAG_Z)
      [] c = "Z" -> Cpu_check_flag(m, FLAG_Z)
      [] c = "NC" -> ~Cpu_check_flag(m, FLAG_C)
      [] c = "C" -> Cpu_check_flag(m, FLAG_C)

Cpu_pushw(m, val) ==
    LET sp == Wrap16(m.regs.sp - 2 + 65536) IN
    WriteRegW(Writew(m, sp, val), "SP", sp)

\* A popw that takes the high byte from SP and the low byte from SP + 1
Popw_swapped(m) ==
    LET sp0 == m.regs.sp
        sp1 == Wrap16(sp0 + 1)
    IN IF ~Ok(m) THEN Val(m, 0)
       ELSE IF Readb_panics(m, sp0) \/ Readb_panics(m, sp1) THEN Val(Panic(m), 0)
       ELSE Val(WriteRegW(m, "SP", Wrap16(sp1 + 1)),
                Readb(m, sp1) + Readb(m, sp0) * 256)

Cpu_popw(m) ==
    LET sp0 == m.regs.sp
        sp1 == Wrap16(sp0 + 1)
    IN IF ~Ok(m) THEN Val(m, 0)
       ELSE IF Readb_panics(m, sp0) \/ Readb_panics(m, sp1) THEN Val(Panic(m), 0)
       ELSE Val(WriteRegW(m, "SP", Wrap16(sp1 + 1)),
                Readb(m, sp0) + Readb(m, sp1) * 256)

\* A dispatch that leaves IME on
Handle_keep_ime(m) ==
    IF ~Ok(m) THEN m
    ELSE The({
      CASE int = NoInterrupt -> m
        [] int = InvalidInterrupt -> Panic(m)
        [] OTHER ->
             WriteRegW(Cpu_pushw([m EXCEPT !.ic = reset_interrupt(m.ic, int)],
                                 Registers_readw(m.regs, "PC")),
                       "PC", Interrupt_get_addr(int)) :
      int \in {get_interrupt(m.ic)}})

\* Cpu::handle_interrupts
Cpu_handle_interrupts(m) ==
    IF ~Ok(m) THEN m
    ELSE The({
      CASE int = NoInterrupt -> m
        [] int = InvalidInterrupt -> Panic(m)
        [] OTHER ->
             The({IF Ok(m3) THEN [m3 EXCEPT !.ic.ime = FALSE] ELSE m3 :
                  m3 \in {WriteRegW(
                             Cpu_pushw([m EXCEPT !.ic = reset_interrupt(m.ic, int)],
                                       Registers_readw(m.regs, "PC")),
                             "PC", Interrupt_get_addr(int))}}) :
      int \in {get_interrupt(m.ic)}})

\* A step that never looks at the interrupt controller
Skip_interrupts(m) == m

\* The first part of Cpu::step: `if self.interconnect.ic.ime { handle_interrupts }`
Cpu_step_ack(m) == IF Ok(m) /\ m.ic.ime THEN Cpu_handle_interrupts(m) ELSE m

\* Operands of the generic instruction handlers: a register (RegsB), an
\* indirect address (IndirectAddr) or the immediate byte (ImmediateB).
Reg(r) == [k |-> "reg", r |-> r]
Ind(ia) == [k |-> "ind", r |-> ia]
ImmediateB == [k |-> "imm", r |-> ""]

\* Cpu::iaddr: [m, val = the address]
Cpu_iaddr(m, ia) ==
    CASE ia \in {"AF", "BC", "DE", "SP", "HL"} -> Val(m, Registers_readw(m.regs, ia))
      [] ia = "HLP" ->
           LET val == Registers_readw(m.regs, "HL")
           IN Val(WriteRegW(m, "HL", Wrap16(val + 1)), val)
      [] ia = "HLM" ->
           LET val == Registers_readw(m.regs, "HL")
           IN Val(WriteRegW(m, "HL", Wrap16(val + 65535)), val)
      [] ia = "ZeroPage" -> The({Val(f.m, \hFF00 + f.val) : f \in {Cpu_fetchb(m)}})
      [] ia = "ZeroPageC" -> Val(m, \hFF00 + Registers_readb(m.regs, "c"))
      [] ia = "AddressW" -> Cpu_fetchw(m)

\* impl ReadB for IndirectAddr / RegsB / ImmediateB
ReadB(m, o) ==
    CASE o.k = "reg" -> Val(m, Registers_readb(m.regs, o.r))
      [] o.k = "imm" -> Cpu_fetchb(m)
      [] o.k = "ind" ->
           The({IF ~Ok(a.m) THEN Val(a.m, 0)
                ELSE IF Readb_panics(a.m, a.val) THEN Val(Panic(a.m), 0)
                ELSE Val(a.m, Readb(a.m, a.val)) :
                a \in {Cpu_iaddr(m, o.r)}})

\* impl WriteB for IndirectAddr / RegsB
WriteB(m, o, val) ==
    CASE o.k = "reg" -> WriteRegB(m, o.r, val)
      [] o.k = "ind" -> The({Writeb(a.m, a.val, val) : a \in {Cpu_iaddr(m, o.r)}})

\* dexec's result: the machine and the ticks returned
Ticks(m, t) == [m |-> m, ticks |-> t]

Cpu_nop(m) == Ticks(m, 4)

Cpu_ld(m, o, i) ==
    The({Ticks(WriteB(v.m, o, v.val), 4) : v \in {ReadB(m, i)}})

\* ldw(dd, AddressW)
Cpu_ldw_imm(m, dd) ==
    The({Ticks(WriteRegW(v.m, dd, v.val), 8) : v \in {Cpu_fetchw(m)}})

\* ldw(dd, reg)
Cpu_ldw_reg(m, dd, reg) ==
    Ticks(WriteRegW(m, dd, Registers_readw(m.regs, reg)), 8)

Cpu_incw(m, reg) ==
    Ticks(WriteRegW(m, reg, Wrap16(Registers_readw(m.regs, reg) + 1)), 8)

Cpu_decw(m, reg) ==
    Ticks(WriteRegW(m, reg, Wrap16(Registers_readw(m.regs, reg) + 65535)), 8)

Cpu_inc(m, addr) ==
    The({LET val == Wrap8(r.val + 1) IN
         Ticks(WriteB(Cpu_set_flag(Cpu_set_flag(Cpu_set_flag(r.m,
                          FLAG_Z, val = 0),
                          FLAG_N, FALSE),
                          FLAG_H, BitAnd(val, \h0F) = 0),
                      addr, val), 4) :
         r \in {ReadB(m, addr)}})

Cpu_dec(m, addr) ==
    The({LET val == Wrap8(r.val + 255) IN
         Ticks(WriteB(Cpu_set_flag(Cpu_set_flag(Cpu_set_flag(r.m,
                          FLAG_Z, val = 0),
                          FLAG_N, TRUE),
                          FLAG_H, BitAnd(val, \h0F) = \h0F),
                      addr, val), 4) :
         r \in {ReadB(m, addr)}})

\* jp(AddressW)
Cpu_jp(m) ==
    The({Ticks(WriteRegW(a.m, "PC", a.val), 16) : a \in {Cpu_fetchw(m)}})

\* jp(HL)
Cpu_jp_hl(m) == Ticks(WriteRegW(m, "PC", Registers_readw(m.regs, "HL")), 16)

Cpu_jp_cond(m, c) ==
    The({IF ~Condition_test(a.m, c) THEN Ticks(a.m, 12)
         ELSE Ticks(WriteRegW(a.m, "PC", a.val), 16) :
         a \in {Cpu_fetchw(m)}})

\* `addr += pc as i16` on an i16: panics on overflow in a checked build
Jr_target(m, off) == AsI8(off) + AsI16(m.regs.pc)
Jr_overflows(m, off) ==
    m.oc /\ (Jr_target(m, off) > 32767 \/ Jr_target(m, off) < -32768)

Cpu_jr_to(m, off) ==
    IF Ok(m) /\ Jr_overflows(m, off) THEN Panic(m)
    ELSE WriteRegW(m, "PC", Wrap16(Jr_target(m, off) + 65536))

Cpu_jr(m) ==
    The({Ticks(Cpu_jr_to(f.m, f.val), 12) : f \in {Cpu_fetchb(m)}})

Cpu_jr_cond(m, c) ==
    The({IF ~Condition_test(f.m, c) THEN Ticks(f.m, 8)
         ELSE Ticks(Cpu_jr_to(f.m, f.val), 12) :
         f \in {Cpu_fetchb(m)}})

Cpu_push(m, reg) == Ticks(Cpu_pushw(m, Registers_readw(m.regs, reg)), 16)

Cpu_pop(m, reg) ==
    The({Ticks(WriteRegW(v.m, reg, v.val), 12) : v \in {Cpu_popw(m)}})

Cpu_call(m) ==
    The({Ticks(WriteRegW(Cpu_pushw(a.m, Registers_readw(a.m.regs, "PC")),
                         "PC", a.val), 24) :
         a \in {Cpu_fetchw(m)}})

Cpu_call_cond(m, cond) ==
    The({IF ~Condition_test(a.m, cond) THEN Ticks(a.m, 12)
         ELSE Ticks(WriteRegW(Cpu_pushw(a.m, Registers_readw(a.m.regs, "PC")),
                              "PC", a.val), 24) :
         a \in {Cpu_fetchw(m)}})

Cpu_do_ret(m) ==
    The({Ticks(WriteRegW(v.m, "PC", v.val), 16) : v \in {Cpu_popw(m)}})

Cpu_reti(m) ==
    Cpu_do_ret(IF Ok(m) THEN [m EXCEPT !.ic.ime = TRUE] ELSE m)

Cpu_ret(m) == Cpu_do_ret(m)

Cpu_ret_cond(m, cond) ==
    IF ~Condition_test(m, cond) THEN Ticks(m, 8)
    ELSE The({Ticks(r.m, r.ticks + 4) : r \in {Cpu_do_ret(m)}})

Cpu_rst(m, addr) ==
    Ticks(WriteRegW(Cpu_pushw(m, Registers_readw(m.regs, "PC")), "PC", addr), 16)

Cpu_ei(m) ==
    Ticks(IF Ok(m) THEN [m EXCEPT !.ic = enable_all_interrupts(m.ic, 1)] ELSE m, 4)

Cpu_di(m) ==
    Ticks(IF Ok(m) THEN [m EXCEPT !.ic = enable_all_interrupts(m.ic, 0)] ELSE m, 4)

\* alu_addb: A is read before the operand; `a + c` of the carry test is a
\* u8 sum, which panics in a checked build and wraps otherwise
Cpu_alu_addb(m, i, use_carry) ==
    The({IF ~Ok(v.m) THEN Ticks(v.m, 4)
         ELSE LET a == Registers_readb(m.regs, "a")
                  val == v.val
                  c == BoolToInt(Cpu_check_flag(v.m, FLAG_C) /\ use_carry)
                  out == Wrap8(Wrap8(val + a) + c)
              IN IF v.m.oc /\ a + c > \hFF THEN Ticks(Overflow(v.m), 4)
                 ELSE Ticks(WriteRegB(Cpu_set_flag(Cpu_set_flag(Cpu_set_flag(
                                Cpu_set_flag(v.m,
                                   FLAG_Z, out = 0),
                                   FLAG_N, FALSE),
                                   FLAG_H, BitAnd(a, \h0F) + c > \h0F - BitAnd(val, \h0F)),
                                   FLAG_C, Wrap8(a + c) > \hFF - val),
                            "a", out), 4) :
         v \in {ReadB(m, i)}})

Cpu_add(m, i) == Cpu_alu_addb(m, i, FALSE)

Cpu_adc(m, i) == Cpu_alu_addb(m, i, TRUE)

\* set: writes (val | 1 << bit) | 1 << bit
Cpu_set(m, bit, addr) ==
    The({LET val == BitOr(r.val, 2 ^ bit) IN
         Ticks(WriteB(r.m, addr, BitOr(val, 2 ^ bit)), 8) :
         r \in {ReadB(m, addr)}})

\* res: writes val & 0 << bit, and `<<` binds tighter than `&`
Cpu_res(m, bit, addr) ==
    The({LET val == BitOr(r.val, 2 ^ bit) IN
         Ticks(WriteB(r.m, addr, BitAnd(val, 0 * (2 ^ bit))), 8) :
         r \in {ReadB(m, addr)}})

\* crash() and stop(): panic
Cpu_crash(m) == Ticks(Panic(m), 0)

\* Operand tables of dexec's match: the 8-bit operand with index 0..7, the
\* pair of LD/INC/DEC rr and of PUSH/POP, the condition, the RST target.
R8(i) ==
    CASE i = 0 -> Reg("b") [] i = 1 -> Reg("c") [] i = 2 -> Reg("d")
      [] i = 3 -> Reg("e") [] i = 4 -> Reg("h") [] i = 5 -> Reg("l")
      [] i = 6 -> Ind("HL") [] i = 7 -> Reg("a")
R16(i) == CASE i = 0 -> "BC" [] i = 1 -> "DE" [] i = 2 -> "HL" [] i = 3 -> "SP"
R16Stack(i) == CASE i = 0 -> "BC" [] i = 1 -> "DE" [] i = 2 -> "HL" [] i = 3 -> "AF"
R16Ind(i) == CASE i = 0 -> "BC" [] i = 1 -> "DE" [] i = 2 -> "HLP" [] i = 3 -> "HLM"
Cond(i) == CASE i = 0 -> "NZ" [] i = 1 -> "Z" [] i = 2 -> "NC" [] i = 3 -> "C"

\* cb_dexec: the arms 0x80..0xBF (RES) and 0xC0..0xFF (SET); the rotates,
\* shifts, SWAP and BIT of 0x00..0x7F are outside the model
Cpu_cb_dexec(m) ==
    The({IF ~Ok(f.m) THEN Ticks(f.m, 0)
         ELSE IF f.val >= \hC0 THEN Cpu_set(f.m, (f.val - \hC0) \div 8, R8(f.val % 8))
         ELSE IF f.val >= \h80 THEN Cpu_res(f.m, (f.val - \h80) \div 8, R8(f.val % 8))
         ELSE Ticks([f.m EXCEPT !.fault = "unmodelled"], 0) :
         f \in {Cpu_fetchb(m)}})

\* Opcodes with no arm in dexec's match (the `inv` arm) and STOP: crash
CrashOpcodes ==
    {\h10, \h27, \h76, \hD3, \hDB, \hDD, \hE3, \hE4, \hEB, \hEC, \hED, \hF4,
     \hFC, \hFD}

\* The arms of dexec's match that call ld(out, in): their opcodes and the
\* two operands each passes
LdOpcodes ==
    {\h02, \h12, \h22, \h32, \h0A, \h1A, \h2A, \h3A,
     \h06, \h0E, \h16, \h1E, \h26, \h2E, \h36, \h3E,
     \hE0, \hE2, \hEA, \hF0, \hF2, \hFA} \cup ((\h40..\h7F) \ {\h76})

Ld_out(op) ==
    CASE op \in {\h02, \h12, \h22, \h32} -> Ind(R16Ind(op \div 16))
      [] op \in {\h0A, \h1A, \h2A, \h3A} -> Reg("a")
      [] op < \h40 /\ op % 8 = 6 -> R8(op \div 8)
      [] op >= \h40 /\ op <= \h7F -> R8((op - \h40) \div 8)
      [] op = \hE0 -> Ind("ZeroPage")
      [] op = \hE2 -> Ind("ZeroPageC")
      [] op = \hEA -> Ind("AddressW")
      [] op \in {\hF0, \hF2, \hFA} -> Reg("a")

Ld_in(op) ==
    CASE op \in {\h02, \h12, \h22, \h32} -> Reg("a")
      [] op \in {\h0A, \h1A, \h2A, \h3A} -> Ind(R16Ind(op \div 16))
      [] op < \h40 /\ op % 8 = 6 -> ImmediateB
      [] op >= \h40 /\ op <= \h7F -> R8(op % 8)
      [] op \in {\hE0, \hE2, \hEA} -> Reg("a")
      [] op = \hF0 -> Ind("ZeroPage")
      [] op = \hF2 -> Ind("ZeroPageC")
      [] op = \hFA -> Ind("AddressW")

\* Opcodes whose handlers are modelled: loads, 16-bit inc/dec, 8-bit inc/dec,
\* jumps, calls, returns, stack, RST, EI/DI, ADD/ADC, and RES/SET of the CB
\* page.  The other ALU, rotate and CB-prefixed handlers are not; executing
\* one marks the run as outside the model.
Dexec_op(m, op) ==
    CASE op = \h00 -> Cpu_nop(m)
      [] op \in CrashOpcodes -> Cpu_crash(m)
      [] op \in LdOpcodes -> Cpu_ld(m, Ld_out(op), Ld_in(op))
      [] op \in {\h01, \h11, \h21, \h31} -> Cpu_ldw_imm(m, R16(op \div 16))
      [] op \in {\h03, \h13, \h23, \h33} -> Cpu_incw(m, R16(op \div 16))
      [] op \in {\h0B, \h1B, \h2B, \h3B} -> Cpu_decw(m, R16(op \div 16))
      [] op < \h40 /\ op % 8 = 4 -> Cpu_inc(m, R8(op \div 8))
      [] op < \h40 /\ op % 8 = 5 -> Cpu_dec(m, R8(op \div 8))
      [] op = \h18 -> Cpu_jr(m)
      [] op \in {\h20, \h28, \h30, \h38} -> Cpu_jr_cond(m, Cond((op - \h20) \div 8))
      [] op \in {\hC0, \hC8, \hD0, \hD8} -> Cpu_ret_cond(m, Cond((op - \hC0) \div 8))
      [] op \in {\hC1, \hD1, \hE1, \hF1} -> Cpu_pop(m, R16Stack((op - \hC0) \div 16))
      [] op \in {\hC2, \hCA, \hD2, \hDA} -> Cpu_jp_cond(m, Cond((op - \hC0) \div 8))
      [] op = \hC3 -> Cpu_jp(m)
      [] op = \hCB -> Cpu_cb_dexec(m)
      [] op >= \h80 /\ op <= \h87 -> Cpu_add(m, R8(op % 8))
      [] op >= \h88 /\ op <= \h8F -> Cpu_adc(m, R8(op % 8))
      [] op = \hC6 -> Cpu_add(m, ImmediateB)
      [] op = \hCE -> Cpu_adc(m, ImmediateB)
      [] op \in {\hC4, \hCC, \hD4, \hDC} -> Cpu_call_cond(m, Cond((op - \hC0) \div 8))
      [] op \in {\hC5, \hD5, \hE5, \hF5} -> Cpu_push(m, R16Stack((op - \hC0) \div 16))
      [] op >= \hC0 /\ op % 8 = 7 -> Cpu_rst(m, op - \hC7)
      [] op = \hC9 -> Cpu_ret(m)
      [] op = \hD9 -> Cpu_reti(m)
      [] op = \hCD -> Cpu_call(m)
      [] op = \hE9 -> Cpu_jp_hl(m)
      [] op = \hF3 -> Cpu_di(m)
      [] op = \hF9 -> Cpu_ldw_reg(m, "SP", "HL")
      [] op = \hFB -> Cpu_ei(m)
      [] OTHER -> Ticks([m EXCEPT !.fault = "unmodelled"], 0)

\* Cpu::dexec
Cpu_dexec(m) ==
    The({IF ~Ok(f.m) THEN Ticks(f.m, 0) ELSE Dexec_op(f.m, f.val) :
         f \in {Cpu_fetchb(m)}})

\* cpu/clk.rs, Clock::add_cycles: `self.cycles += cycles` on a u32
Clock_add_cycles(m, cycles) ==
    IF ~Ok(m) THEN m
    ELSE IF m.oc /\ U32_add_overflows(m.clk, cycles) THEN Overflow(m)
    ELSE [m EXCEPT !.clk = U32_add(m.clk, cycles)]

\* The second part of Cpu::step: dexec, then the clock
Cpu_step_exec(m) ==
    The({Ticks(Clock_add_cycles(d.m, d.ticks), d.ticks) : d \in {Cpu_dexec(m)}})

\* Cpu::step as one function: [m, ticks, reqs]
Cpu_step(m) ==
    The({The({[m |-> b.m, ticks |-> d.ticks, reqs |-> b.reqs] :
              b \in {Interconnect_step(d.m, d.ticks)}}) :
         d \in {Cpu_step_exec(Cpu_step_ack(m))}})

--------------------------------------------------------------------------
(* State.                                                                  *)
(* m is the machine.  at, timeslice, ticks, last, steps and runs are the   *)
(* position and locals of GameBoy::run and Cpu::step.  The rest records    *)
(* history: the machine at step entry (entry), the kind dispatched by the  *)
(* current step (acked), the kinds requested by the last bus advance       *)
(* (raised), the cycles fed so far (elapsed), how often LY took each value *)
(* (seen), how often VBlank was requested (vbl), whether DIV was written   *)
(* (divw), the bus write the last action made, if it made one (lastw), and   *)
(* the number of bus writes (nwrites).                                     *)

VARIABLES m, at, timeslice, ticks, last, steps, runs,
          entry, acked, raised, elapsed, seen, vbl, divw, lastw, nwrites

vars == <<m, at, timeslice, ticks, last, steps, runs,
          entry, acked, raised, elapsed, seen, vbl, divw, lastw, nwrites>>
runVars == <<at, timeslice, ticks, last, steps, runs, entry, acked, raised>>

\* Cycle counts a step can return (the values returned by dexec's handlers)
InstrCycles == {4, 8, 12, 16, 20, 24}

NoWrite == [addr |-> -1, val |-> 0]

\* What is remembered of the machine at step entry
Snapshot(x) ==
    [pc |-> x.regs.pc, sp |-> x.regs.sp, ime |-> x.ic.ime, iflag |-> x.ic.iflag,
     ie |-> x.ic.ie]

\* A 32 KiB cartridge without MBC whose ROM is all zero, and an all-zero
\* boot ROM
BlankCart == Cartridge_new(Mbc_None, Empty, 32768)
BlankBoot == Bootrom_some(Empty)

InitRun ==
    /\ at = "idle" /\ timeslice = U32(0) /\ ticks = U32(0) /\ last = 0
    /\ steps = 0
    /\ runs = 0 /\ acked = NoInterrupt /\ raised = <<>>

InitHistory ==
    /\ elapsed = 0 /\ vbl = 0 /\ divw = FALSE /\ lastw = NoWrite /\ nwrites = 0

\* The machines GameBoy::new can return for the blank cartridge: with the
\* blank boot ROM or with none, built with or without overflow checks
FreshMachines ==
    {GameBoy_new(BlankCart, b, oc) : b \in {BlankBoot, Bootrom_none}, oc \in BOOLEAN}

--------------------------------------------------------------------------
(* SpecTimer: Timer::step driven in instruction-sized increments, with     *)
(* bus writes to the timer registers.                                      *)

MaxTimerCycles == 1100
MaxTimerWrites == 1

\* (address, value) pairs written: DIV, TIMA, TAC (enable, 4-cycle period)
TimerWrites == {<<\hFF04, \h55>>, <<\hFF05, \hFE>>, <<\hFF07, \h05>>}

InitTimer ==
    /\ m = GameBoy_new(BlankCart, BlankBoot, FALSE)
    /\ entry = Snapshot(m) /\ seen = Empty
    /\ InitRun /\ InitHistory

TimerStep(c) ==
    /\ Ok(m) /\ elapsed + c <= MaxTimerCycles
    /\ LET t == Timer_step(m.timer, c) IN
         m' = [m EXCEPT !.timer = t.timer, !.ic = RequestAll(m.ic, t.reqs)]
    /\ elapsed' = elapsed + c
    /\ lastw' = NoWrite
    /\ UNCHANGED <<runVars, seen, vbl, divw, nwrites>>

TimerWrite(a, v) ==
    /\ Ok(m) /\ nwrites < MaxTimerWrites
    /\ m' = Writeb(m, a, v)
    /\ divw' = (divw \/ a = \hFF04)
    /\ lastw' = [addr |-> a, val |-> v]
    /\ nwrites' = nwrites + 1
    /\ UNCHANGED <<runVars, elapsed, seen, vbl>>

NextTimer ==
    \/ \E c \in InstrCycles : TimerStep(c)
    \/ \E w \in TimerWrites : TimerWrite(w[1], w[2])

SpecTimer == InitTimer /\ [][NextTimer]_vars

\* C10 DIV rate: with no write to DIV, after N cycles fed to the timer DIV
\* reads (N div 256) mod 256.
C10_DivRate ==
    ~divw => Timer_get_div(m.timer) = (elapsed \div 256) % 256

--------------------------------------------------------------------------
(* SpecTima: Timer::step driven in instruction-sized increments on a       *)
(* machine whose program has set up TMA, TIMA and TAC, with later writes   *)
(* to TAC.                                                                 *)

CPU_HZ == 4194304
MaxTimaCycles == 300
MaxTimaWrites == 1

\* TAC values that set_tac accepts: val >> 2 in {0x00, 0x01, 0x10, 0x11}
\* selects Freq4096, Freq262144, Freq65536, Freq16384; bit 0 enables
TacValues == {\h00, \h01, \h04, \h05, \h41, \h45}

TimaSetups ==
    {[tma |-> a, tima |-> b, tac |-> c] :
        a \in {\h80}, b \in {\h00, \hFE, \hFF}, c \in TacValues}

\* TAC values written later: timer off, timer on with Freq262144
TacWrites == {\h00, \h05}

\* The machine after the program's writes to TMA, TIMA and TAC
TimaMachine(s) ==
    Writeb(Writeb(Writeb(GameBoy_new(BlankCart, BlankBoot, FALSE),
                         \hFF06, s.tma), \hFF05, s.tima), \hFF07, s.tac)

InitTima ==
    /\ m \in {TimaMachine(s) : s \in TimaSetups}
    /\ entry = Snapshot(m) /\ seen = Empty
    /\ InitRun /\ InitHistory

TimaStep(c) ==
    /\ Ok(m) /\ elapsed + c <= MaxTimaCycles
    /\ \E t \in {Timer_step(m.timer, c)} :
         m' = [m EXCEPT !.timer = t.timer, !.ic = RequestAll(m.ic, t.reqs)]
    /\ elapsed' = elapsed + c
    /\ lastw' = NoWrite
    /\ UNCHANGED <<runVars, seen, vbl, divw, nwrites>>

TimaWrite(v) ==
    /\ Ok(m) /\ nwrites < MaxTimaWrites
    /\ m' = Writeb(m, \hFF07, v)
    /\ lastw' = [addr |-> \hFF07, val |-> v]
    /\ nwrites' = nwrites + 1
    /\ UNCHANGED <<runVars, elapsed, seen, vbl, divw>>

NextTima ==
    \/ \E c \in InstrCycles : TimaStep(c)
    \/ \E v \in TacWrites : TimaWrite(v)

SpecTima == InitTima /\ [][NextTima]_vars

\* The T-cycles per TIMA increment of an input clock: 1024, 16, 64, 256
Timer_period(f) == CPU_HZ \div InputClockFreq_hz(f)

\* TIMA after n advances: 0xFF is followed by TMA
RECURSIVE Tima_after(_, _, _)
Tima_after(counter, modulo, n) ==
    IF n = 0 THEN counter
    ELSE Tima_after(IF counter = \hFF THEN modulo ELSE counter + 1, modulo, n - 1)

\* C11 TIMA rate: in every step of the enabled timer the cycles are added
\* to the accumulator, TIMA advances once for each full period (1024, 16, 64
\* or 256 T-cycles) the accumulator holds, and each advance takes its period
\* off the accumulator.
C11_TimaRate ==
    [][(Ok(m) /\ elapsed' # elapsed /\ m.timer.enabled) =>
        LET acc == m.timer.icounter + (elapsed' - elapsed)
            P == Timer_period(m.timer.input_freq)
        IN /\ m'.timer.icounter = acc % P
           /\ m'.timer.counter =
                 Tima_after(m.timer.counter, m.timer.modulo, acc \div P)]_vars

\* C12 TIMA overflow and enable gating: in every timer step, when an advance
\* is due and TIMA is 0xFF, TIMA becomes TMA and IF bit 2 is set; when an
\* advance is due and TIMA is below 0xFF, TIMA is incremented and IF is
\* unchanged; when the timer is not enabled TIMA and IF are unchanged and DIV
\* and its accumulator advance as step_div makes them.
C12_TimaOverflow ==
    [][(Ok(m) /\ elapsed' # elapsed) =>
        LET t == m.timer
            c == elapsed' - elapsed
            due == t.enabled /\
                   t.icounter + c >= InputClockFreq_to_cycles(t.input_freq)
        IN /\ (due /\ t.counter = \hFF) =>
                 /\ m'.timer.counter = t.modulo
                 /\ m'.ic.iflag = BitOr(m.ic.iflag, Interrupt_bit(TimerInt))
           /\ (due /\ t.counter < \hFF) =>
                 /\ m'.timer.counter = t.counter + 1
                 /\ m'.ic.iflag = m.ic.iflag
           /\ ~t.enabled =>
                 /\ m'.timer.counter = t.counter
                 /\ m'.ic.iflag = m.ic.iflag
                 /\ m'.timer.div = Timer_step_div(t, c).div
                 /\ m'.timer.idiv = Timer_step_div(t, c).idiv]_vars

\* TIMA has overflowed from 0xFF: it holds TMA = 0x80 and IF bit 2 is set
C12_Witness ==
    /\ Ok(m) /\ elapsed > 0 /\ m.timer.enabled
    /\ m.timer.modulo = \h80 /\ m.timer.counter = \h80
    /\ m.ic.iflag = Interrupt_bit(TimerInt)

--------------------------------------------------------------------------
(* SpecPpu: Gpu::step driven in instruction-sized increments from the      *)
(* moment the LCD is on, with no register writes afterwards.               *)

FRAME_CYCLES == 154 * 456
\* The model follows the PPU until it is back on line 0: a frame of the code
\* takes 144 * 456 + 10 * 576 = 71,424 cycles
MaxPpuCycles == 71448

\* LCDC values written to switch the LCD on (the machine built without a boot
\* ROM starts with LCDC = 0x91: LCD and background on)
LcdOnValues == {\h80}

\* An LY value is taken: counted in seen
Visit(s, ly) == [v \in DOMAIN s \cup {ly} |-> Get(s, v) + (IF v = ly THEN 1 ELSE 0)]

RECURSIVE Count(_, _)
Count(reqs, int) ==
    IF reqs = <<>> THEN 0
    ELSE (IF Head(reqs) = int THEN 1 ELSE 0) + Count(Tail(reqs), int)

InitPpu ==
    /\ m \in FreshMachines
    /\ entry = Snapshot(m)
    /\ seen = IF m.gpu.lcd_enable THEN Visit(Empty, m.gpu.ly) ELSE Empty
    /\ InitRun /\ InitHistory

\* The bus write that switches the LCD on; the window starts here
PpuEnable(v) ==
    /\ Ok(m) /\ ~m.gpu.lcd_enable
    /\ m' = Writeb(m, \hFF40, v)
    /\ seen' = Visit(Empty, m'.gpu.ly)
    /\ lastw' = [addr |-> \hFF40, val |-> v]
    /\ nwrites' = nwrites + 1
    /\ UNCHANGED <<runVars, elapsed, vbl, divw>>

PpuStep(c) ==
    /\ Ok(m) /\ m.gpu.lcd_enable /\ elapsed + c <= MaxPpuCycles
    /\ LET g == Gpu_step(m.gpu, c, m.oc) IN
         /\ m' = [m EXCEPT !.gpu = g.gpu, !.ic = RequestAll(m.ic, g.reqs),
                           !.fault = g.fault]
         /\ seen' = IF g.gpu.ly # m.gpu.ly THEN Visit(seen, g.gpu.ly) ELSE seen
         /\ vbl' = vbl + Count(g.reqs, VBlank)
    /\ elapsed' = elapsed + c
    /\ lastw' = NoWrite
    /\ UNCHANGED <<runVars, divw, nwrites>>

NextPpu ==
    \/ \E v \in LcdOnValues : PpuEnable(v)
    \/ \E c \in InstrCycles : PpuStep(c)

SpecPpu == InitPpu /\ [][NextPpu]_vars

\* C4 PPU frame: by the end of a window of 70,224 cycles with the LCD on and
\* no register writes, LY has taken each value 0..153 exactly once and VBlank
\* has been requested exactly once.
C4_Frame ==
    (elapsed >= FRAME_CYCLES - 24 /\ elapsed < FRAME_CYCLES) =>
        /\ \A v \in 0..153 : Get(seen, v) = 1
        /\ vbl = 1

--------------------------------------------------------------------------
(* SpecLcd: Gpu::step interleaved with bus writes to the PPU's registers   *)
(* and memories.  The PPU is followed on the lines LcdLines of the frame,   *)
(* which the program reaches by writing LY.                                *)

LcdCycles == {12, 24}
LcdLines == {0, 143, 144, 153}

\* (address, value) pairs written: LCDC on and off, STAT with its four
\* interrupt bits and with the compare interrupt bit alone, LYC = 144,
\* LY = 143 and 153, OAM y
LcdWrites ==
    {<<\hFF40, \h80>>, <<\hFF40, \h00>>, <<\hFF41, \h78>>, <<\hFF41, \h40>>,
     <<\hFF45, \h90>>,
     <<\hFF44, \h8F>>, <<\hFF44, \h99>>, <<\hFE00, \hA5>>}

\* The fresh machines with and without the boot ROM.  LY stays below 154 on
\* the lines followed, so no step overflows and the build makes no difference.
InitLcd ==
    /\ m \in {GameBoy_new(BlankCart, b, FALSE) : b \in {BlankBoot, Bootrom_none}}
    /\ entry = Snapshot(m) /\ seen = Empty
    /\ InitRun /\ InitHistory

LcdWrite(a, v) ==
    /\ Ok(m)
    /\ m' = Writeb(m, a, v)
    /\ lastw' = [addr |-> a, val |-> v]
    /\ raised' = <<>>
    /\ UNCHANGED <<at, timeslice, ticks, last, steps, runs, entry, acked,
                   elapsed, seen, vbl, divw, nwrites>>

\* raised: the interrupts this step requested
LcdStep(c) ==
    /\ Ok(m) /\ (m.gpu.lcd_enable => m.gpu.ly \in LcdLines)
    /\ \E g \in {Gpu_step(m.gpu, c, m.oc)} :
          /\ m' = [m EXCEPT !.gpu = g.gpu, !.ic = RequestAll(m.ic, g.reqs),
                            !.fault = g.fault]
          /\ raised' = g.reqs
    /\ lastw' = NoWrite
    /\ UNCHANGED <<at, timeslice, ticks, last, steps, runs, entry, acked,
                   elapsed, seen, vbl, divw, nwrites>>

NextLcd ==
    \/ \E w \in LcdWrites : LcdWrite(w[1], w[2])
    \/ \E c \in LcdCycles : LcdStep(c)

SpecLcd == InitLcd /\ [][NextLcd]_vars

--------------------------------------------------------------------------
(* SpecCart: bank-control writes and reads of ROM and cartridge RAM, made  *)
(* through the bus.  seen marks the address of a read that was the last    *)
(* operation, last is the byte it returned, lastw the last write.          *)

\* ROM images of 4 and of 128 banks of 16 KiB
RomBankCounts == {4, 128}

\* Byte 0 of bank b in the images: a value that names the bank
BankTag(b) == b + 1

\* An image of n banks: header byte 0x147 = 0x01 (MBC1), 0x149 = 0x00 (no
\* RAM), an empty title, byte 0 of every bank tagged, zero elsewhere.
RomImage(n) ==
    [i \in {b * ROM_BANK_SZ : b \in 0..(n - 1)} \cup {\h147} |->
        IF i = \h147 THEN \h01 ELSE BankTag(i \div ROM_BANK_SZ)]

Mbc1Cart(n) == Cartridge_new(Mbc_One, RomImage(n), n * ROM_BANK_SZ)

\* A 32 KiB cartridge without MBC: header byte 0x147 = 0x00
NoMbcCart == Cartridge_new(Mbc_None, Put(RomImage(2), \h147, \h00), 2 * ROM_BANK_SZ)

CartWriteAddrs == {\h1FFF, \h2000, \h4000, \h6000}
CartWriteVals == {\h00, \h01, \h04, \h0A, \h1A, \h20}
CartReadAddrs == {\h0000, \h3FFF, \h4000, \hA000}

InitCart ==
    /\ m \in {GameBoy_new(c, Bootrom_none, FALSE) :
                c \in {Mbc1Cart(n) : n \in RomBankCounts} \cup {NoMbcCart}}
    /\ entry = Snapshot(m) /\ seen = Empty
    /\ InitRun /\ InitHistory

\* Interconnect::writeb with an address in 0x0000..0x7FFF
CartWrite(a, v) ==
    /\ Ok(m)
    /\ m' = Writeb(m, a, v)
    /\ lastw' = [addr |-> a, val |-> v]
    /\ seen' = Empty
    /\ UNCHANGED <<runVars, elapsed, vbl, divw, nwrites>>

\* Interconnect::readb with an address of the cartridge; a read that panics
\* returns nothing
CartRead(a) ==
    /\ Ok(m)
    /\ m' = ReadChk(m, a)
    /\ last' = IF Readb_panics(m, a) THEN last ELSE Readb(m, a)
    /\ seen' = Visit(Empty, a)
    /\ UNCHANGED <<at, timeslice, ticks, steps, runs, entry, acked, raised,
                   elapsed, vbl, divw, lastw, nwrites>>

NextCart ==
    \/ \E a \in CartWriteAddrs, v \in CartWriteVals : CartWrite(a, v)
    \/ \E a \in CartReadAddrs : CartRead(a)

SpecCart == InitCart /\ [][NextCart]_vars

--------------------------------------------------------------------------
(* SpecMmio: bus reads and writes in the I/O page 0xFF00..0xFF7F.  seen    *)
(* marks the address of a read that was the last operation, last is the    *)
(* byte it returned, lastw the last write.                                 *)

\* Addresses of the I/O page that are none of DIV, TIMA, TMA, TAC, IF, the
\* PPU registers and the boot latch
UnlistedMmio == {\hFF00, \hFF0E, \hFF3F, \hFF46, \hFF4C, \hFF4F, \hFF51, \hFF7F}
BootLatch == \hFF50
\* TAC, STAT and SCY, registers of the list
ListedMmio == {\hFF07, \hFF41, \hFF42}
MmioAddrs == UnlistedMmio \cup {BootLatch} \cup ListedMmio
MmioVals == {\h00, \h01, \hA5}

InitMmio ==
    /\ m \in {GameBoy_new(BlankCart, b, FALSE) : b \in {BlankBoot, Bootrom_none}}
    /\ entry = Snapshot(m) /\ seen = Empty
    /\ InitRun /\ InitHistory

MmioWrite(a, v) ==
    /\ Ok(m)
    /\ m' = Writeb(m, a, v)
    /\ lastw' = [addr |-> a, val |-> v]
    /\ seen' = Empty
    /\ UNCHANGED <<runVars, elapsed, vbl, divw, nwrites>>

\* A read that panics returns nothing
MmioRead(a) ==
    /\ Ok(m)
    /\ m' = ReadChk(m, a)
    /\ last' = IF Readb_panics(m, a) THEN last ELSE Readb(m, a)
    /\ seen' = Visit(Empty, a)
    /\ UNCHANGED <<at, timeslice, ticks, steps, runs, entry, acked, raised,
                   elapsed, vbl, divw, lastw, nwrites>>

NextMmio ==
    \/ \E a \in MmioAddrs, v \in MmioVals : MmioWrite(a, v)
    \/ \E a \in MmioAddrs : MmioRead(a)

SpecMmio == InitMmio /\ [][NextMmio]_vars

--------------------------------------------------------------------------
(* SpecBus: bus writes interleaved with Interconnect::step.                *)

MaxBusCycles == 480
MaxBusWrites == 2
BusCycles == {24}

\* (address, value) pairs written: tileset, tilemap #1, tilemap #2, OAM y and
\* flags, WRAM, HRAM, the boot latch (1 and 0), LY, SCY, SCX
BusWrites ==
    {<<\h8000, \h01>>, <<\h9800, \h01>>, <<\h9C00, \hA5>>, <<\hFE00, \hA5>>,
     <<\hFE03, \h01>>, <<\hC000, \hA5>>, <<\hFF80, \hA5>>, <<\hFF50, \h01>>,
     <<\hFF50, \h00>>, <<\hFF44, \h8F>>, <<\hFF42, \hF8>>, <<\hFF43, \hFF>>}

InitBus ==
    /\ m \in FreshMachines
    /\ entry = Snapshot(m) /\ seen = Empty
    /\ InitRun /\ InitHistory

BusWrite(a, v) ==
    /\ Ok(m) /\ nwrites < MaxBusWrites
    /\ m' = Writeb(m, a, v)
    /\ lastw' = [addr |-> a, val |-> v]
    /\ nwrites' = nwrites + 1
    /\ UNCHANGED <<runVars, elapsed, seen, vbl, divw>>

BusStep(c) ==
    /\ Ok(m) /\ elapsed + c <= MaxBusCycles
    /\ m' = Interconnect_step(m, c).m
    /\ elapsed' = elapsed + c
    /\ lastw' = NoWrite
    /\ UNCHANGED <<runVars, seen, vbl, divw, nwrites>>

NextBus ==
    \/ \E w \in BusWrites : BusWrite(w[1], w[2])
    \/ \E c \in BusCycles : BusStep(c)

SpecBus == InitBus /\ [][NextBus]_vars

InTileset(a) == a >= \h8000 /\ a <= \h97FF
InTilemap1(a) == a >= \h9800 /\ a <= \h9BFF
InTilemap2(a) == a >= \h9C00 /\ a <= \h9FFF
InOam(a) == a >= \hFE00 /\ a <= \hFE9F
InWram(a) == a >= \hC000 /\ a <= \hDFFF
InHram(a) == a >= \hFF80 /\ a <= \hFFFE
InVideo(a) == InTileset(a) \/ InTilemap1(a) \/ InTilemap2(a) \/ InOam(a)

\* The PPU mode blocks CPU access to address a
Blocked(mode, a) ==
    \/ mode = Mode_AccessingVram /\ InVideo(a)
    \/ mode = Mode_AccessingOam /\ InOam(a)

\* C6 bus round trip: right after writeb(a, v) with a in WRAM, HRAM, tileset,
\* a tilemap or OAM, and the PPU mode permitting access to a, readb(a) is v.
C6_RoundTrip ==
    (/\ Ok(m)
     /\ InWram(lastw.addr) \/ InHram(lastw.addr) \/ InVideo(lastw.addr)
     /\ ~Blocked(m.gpu.mode, lastw.addr))
    => Readb(m, lastw.addr) = lastw.val

\* C8 boot latch: once boot_mode is false no bus write (and no other step)
\* makes it true again.
C8_LatchOneWay == [][~m.boot_mode => ~m'.boot_mode]_vars

\* The byte the PPU keeps for bus address a (tileset, tilemaps, OAM)
Stored(g, a) ==
    CASE InTileset(a) -> Get(g.tile_set, BitAnd(a, \h17FF))
      [] InTilemap1(a) -> Get(g.tile_map1, BitAnd(a, \h03FF))
      [] InTilemap2(a) -> Get(g.tile_map2, BitAnd(a, \h03FF))
      [] InOam(a) -> Get(g.oam, BitAnd(a, \h9F))

\* The form in which a written byte is kept: an OAM flags byte keeps its
\* four flag bits
StoreForm(a, v) == IF InOam(a) /\ a % 4 = 3 THEN BitAnd(v, \hF0) ELSE v

VideoAddrs == {w[1] : w \in {x \in BusWrites : InVideo(x[1])}}

\* Reads through the bus: 0xFF where the mode blocks, the stored byte elsewhere
ReadGating ==
    Ok(m) => \A a \in VideoAddrs :
        Readb(m, a) = IF Blocked(m.gpu.mode, a) THEN \hFF ELSE Stored(m.gpu, a)

\* A write through the bus: discarded where the mode blocks, stored elsewhere
WriteGating ==
    (Ok(m) /\ lastw' # NoWrite /\ InVideo(lastw'.addr)) =>
        IF Blocked(m.gpu.mode, lastw'.addr)
        THEN /\ m'.gpu.tile_set = m.gpu.tile_set
             /\ m'.gpu.tile_map1 = m.gpu.tile_map1
             /\ m'.gpu.tile_map2 = m.gpu.tile_map2
             /\ m'.gpu.oam = m.gpu.oam
        ELSE Stored(m'.gpu, lastw'.addr) = StoreForm(lastw'.addr, lastw'.val)

\* The shade of background pixel i of the current line, from the stored bytes
StoredShade(g, i) ==
    LET y == (g.ly + g.scroll_y) % 256
        x == i + g.scroll_x
        map == IF g.bg_tile_map THEN g.tile_map2 ELSE g.tile_map1
        num == Get(map, ((y \div 8) * 32) + (x \div 8))
        tile == IF g.bg_tile_set THEN num
                ELSE (IF num >= 128 THEN num - 256 ELSE num) + 128
        lo == Get(g.tile_set, (tile * 16) + ((y % 8) * 2))
        hi == Get(g.tile_set, (tile * 16) + ((y % 8) * 2) + 1)
        colour == (2 * ((lo \div (2 ^ (x % 8))) % 2)) + ((hi \div (2 ^ (x % 8))) % 2)
    IN (g.bgp.reg \div (4 ^ colour)) % 4

\* A step that ends VRAM-access with the background on draws the line from
\* the stored bytes, which the bus would have read as 0xFF at that moment
RenderReadsStored ==
    (/\ Ok(m) /\ Ok(m') /\ m.gpu.lcd_enable /\ m.gpu.bg_enable
     /\ m.gpu.mode = Mode_AccessingVram /\ m'.gpu.mode = Mode_HBlank)
    => \A i \in 0..(SCREEN_W - 1) :
          Get(m'.gpu.buffer, (m.gpu.ly * SCREEN_W) + i) = StoredShade(m.gpu, i)

\* C7 VRAM/OAM gating: in VRAM-access mode bus reads of tileset, tilemaps and
\* OAM return 0xFF and bus writes leave the stored bytes unchanged; in
\* OAM-search mode that holds for OAM only; in HBlank and VBlank reads return
\* the stored byte and writes are stored; the line renderer uses the stored
\* bytes in every mode.
C7_Gating == [][ReadGating /\ ReadGating' /\ WriteGating /\ RenderReadsStored]_vars

\* C7 witness: in VRAM-access mode a tileset byte stored earlier reads 0xFF
\* and the write to tilemap #1 just made was discarded.
C7_Witness ==
    /\ m.gpu.mode = Mode_AccessingVram
    /\ lastw = [addr |-> \h9800, val |-> 1]
    /\ Get(m.gpu.tile_map1, 0) = 0
    /\ Get(m.gpu.tile_set, 0) = 1
    /\ Readb(m, \h8000) = \hFF

--------------------------------------------------------------------------
(* Spec: the whole machine run by GameBoy::run.  Cpu::step is taken in its *)
(* three parts, in order: interrupt acknowledge (at = "ack"), dexec        *)
(* (at = "exec") and Interconnect::step (at = "bus"), after which run      *)
(* compares the accumulated ticks with the timeslice.                      *)

MaxRuns == 2
Timeslices == {U32(0), U32(40), U32(400)}

\* A ROM image: the bytes placed at base, as a sparse array
Image(base, bytes) ==
    [a \in {base + i - 1 : i \in {j \in 1..Len(bytes) : bytes[j] # 0}} |->
        bytes[a - base + 1]]

\* The boot ROM: a jump to the cartridge's set-up code, a RETI at 0x0030 that
\* the set-up code calls to switch IME on, and the five interrupt handlers
\*   0x0040 NOP; RETI   0x0048 RETI   0x0050 INC A; RETI   0x0058 RET
\*   0x0060 RETI
BootImage ==
    Image(\h00, <<\hC3, \hE2, \h02>>) @@ Image(\h30, <<\hD9>>) @@
    Image(\h40, <<\h00, \hD9>>) @@ Image(\h48, <<\hD9>>) @@
    Image(\h50, <<\h3C, \hD9>>) @@ Image(\h58, <<\hC9>>) @@
    Image(\h60, <<\hD9>>)

\* The cartridge: set-up code at 0x02E2 that loads SP, TIMA, TAC, STAT, LCDC,
\* IE and IF from cfg and calls 0x0030, so that the step after the RETI
\* starts at 0x0300 with IME on; at 0x0300 the loop NOP; INC A; JR -4
CartImage(cfg) ==
    Image(\h02E2,
          <<\h31, cfg.sp % 256, cfg.sp \div 256,
            \h3E, cfg.tima, \hE0, \h05,
            \h3E, cfg.tac, \hE0, \h07,
            \h3E, cfg.stat, \hE0, \h41,
            \h3E, cfg.lcdc, \hE0, \h40,
            \h3E, cfg.ie, \hE0, \hFF,
            \h3E, cfg.ifl, \hE0, \h0F,
            \hCD, \h30, \h00>>) @@
    Image(\h0300, <<\h00, \h3C, \h18, \hFC>>)

\* Devices the set-up code switches on: none, the timer (period 4, TIMA near
\* overflow), the LCD with the STAT OAM interrupt
Devices ==
    {[tima |-> \h00, tac |-> \h00, stat |-> \h00, lcdc |-> \h00],
     [tima |-> \hF0, tac |-> \h05, stat |-> \h00, lcdc |-> \h00],
     [tima |-> \h00, tac |-> \h00, stat |-> \h20, lcdc |-> \h80]}

Configs ==
    {[sp |-> sp, ie |-> ie, ifl |-> ifl, tima |-> d.tima, tac |-> d.tac,
      stat |-> d.stat, lcdc |-> d.lcdc] :
        sp \in {\hFFFE, \hD000}, ie \in {\h01, \h06, \hFF},
        ifl \in {\h00, \h01, \h08, \h1F, \hE0}, d \in Devices}

\* The blank cartridge with a boot ROM that holds the one-instruction loop
\* `JR -2` at 0x0000: every step takes 12 cycles and returns to PC = 0
LoopMachines ==
    {GameBoy_new(BlankCart, Bootrom_some(Image(\h00, <<\h18, \hFE>>)), oc) :
        oc \in BOOLEAN}

Machines ==
    {GameBoy_new(Cartridge_new(Mbc_None, CartImage(cfg), 32768),
                 Bootrom_some(BootImage), oc) : cfg \in Configs, oc \in BOOLEAN}
    \cup FreshMachines \cup LoopMachines

\* A loop machine x after n steps of the loop.  The steps fed 12n cycles to
\* the clock and to the timer, whose DIV accumulator gives up 255 per DIV
\* increment; 12n = 255q + r with q = 4n div 85 and r = 3 * (4n mod 85).
\* Nothing else of the machine changes.
LoopCycles(n) ==
    [hi |-> 12 * (n \div 65536) + ((12 * (n % 65536)) \div 65536),
     lo |-> (12 * (n % 65536)) % 65536]
LoopState(x, n) ==
    [x EXCEPT !.clk = LoopCycles(n),
              !.timer.div = ((4 * n) \div 85) % 256,
              !.timer.idiv = 3 * ((4 * n) % 85)]

\* run(0xFFFFFFFF), called on a fresh loop machine, has made LoopSteps steps:
\* ticks is 12 * LoopSteps = 2^32 - 16
LoopSteps == 357913940

InitLoop ==
    /\ m \in {LoopState(x, LoopSteps) : x \in LoopMachines}
    /\ entry = Snapshot(m) /\ seen = Empty
    /\ at = "ack" /\ timeslice = U32_MAX /\ ticks = LoopCycles(LoopSteps)
    /\ last = 12 /\ steps = LoopSteps /\ runs = 1
    /\ acked = NoInterrupt /\ raised = <<>>
    /\ InitHistory

\* The machine is fresh, or it is the loop machine late in a long run.
\* elapsed counts the cycles from this first state on.
Init ==
    \/ /\ m \in Machines
       /\ entry = Snapshot(m) /\ seen = Empty
       /\ InitRun /\ InitHistory
    \/ InitLoop

\* The model follows the machine for MaxElapsed cycles
MaxElapsed == 2000

\* GameBoy::run(timeslice) is called: `let mut ticks = 0; loop {`
RunCall(ts) ==
    /\ at = "idle" /\ Ok(m) /\ runs < MaxRuns
    /\ at' = "ack" /\ timeslice' = ts /\ ticks' = U32(0) /\ steps' = 0
    /\ runs' = runs + 1
    /\ UNCHANGED <<m, last, entry, acked, raised, elapsed, seen, vbl, divw,
                   lastw, nwrites>>

\* Cpu::step, first part: `if ime { handle_interrupts() }`
StepAck ==
    /\ at = "ack" /\ Ok(m) /\ elapsed < MaxElapsed
    /\ m' = Cpu_step_ack(m)
    /\ entry' = Snapshot(m)
    /\ acked' = IF m.ic.ime THEN get_interrupt(m.ic) ELSE NoInterrupt
    /\ at' = "exec"
    /\ UNCHANGED <<timeslice, ticks, last, steps, runs, raised, elapsed, seen,
                   vbl, divw, lastw, nwrites>>

\* Cpu::step, second part: `let ticks = self.dexec(); clk.add_cycles(ticks)`
StepExec ==
    /\ at = "exec" /\ Ok(m)
    /\ \E d \in {Cpu_step_exec(m)} : m' = d.m /\ last' = d.ticks
    /\ at' = "bus"
    /\ UNCHANGED <<timeslice, ticks, steps, runs, entry, acked, raised,
                   elapsed, seen, vbl, divw, lastw, nwrites>>

\* run's test after a step: `if ticks > timeslice { return ticks }`
Run_returns(t, ts) == U32_gt(t, ts)

\* run's `ticks += self.cpu.step()` on a u32: the machine after the addition
Run_add(m1, t, cycles) ==
    IF Ok(m1) /\ m1.oc /\ U32_add_overflows(t, cycles) THEN Overflow(m1) ELSE m1

\* Cpu::step, last part: `self.interconnect.step(ticks)`; then, back in run,
\* `ticks += ...` and the test
StepBus ==
    /\ at = "bus" /\ Ok(m)
    /\ \E b \in {Interconnect_step(m, last)} :
          m' = Run_add(b.m, ticks, last) /\ raised' = b.reqs
    /\ ticks' = U32_add(ticks, last)
    /\ steps' = steps + 1
    /\ elapsed' = elapsed + last
    /\ at' = IF Run_returns(ticks', timeslice) THEN "idle" ELSE "ack"
    /\ UNCHANGED <<timeslice, last, runs, entry, acked, seen, vbl, divw,
                   lastw, nwrites>>

Next ==
    \/ \E ts \in Timeslices : RunCall(ts)
    \/ StepAck
    \/ StepExec
    \/ StepBus

Spec == Init /\ [][Next]_vars

--------------------------------------------------------------------------
(* SpecCpu: Cpu::step taken whole, on short programs held in the boot ROM.  *)
(* seen marks the opcode the step fetched, last is the count dexec         *)
(* returned, acked the kind the step dispatched, entry the machine at step *)
(* entry.  lastw is the last word pushed: the address it was pushed to,    *)
(* its value, and by what (an interrupt dispatch, a call, or the register  *)
(* pair of a PUSH).                                                        *)

\* The model follows each program for MaxCpuSteps steps
MaxCpuSteps == 22

\* LD SP,0xD000
SetSp == <<\h31, \h00, \hD0>>
\* JR -2
Halt == <<\h18, \hFE>>

\* Words that reach AF, DE, HL and BC through the stack:
\*   LD BC,w; PUSH BC; POP AF; PUSH AF; POP AF; PUSH AF; POP DE; PUSH DE;
\*   POP DE; PUSH DE; POP HL; PUSH HL; POP HL; PUSH BC; POP BC
StackWords == {\h0000, \h12FF, \h80F0, \hA55A}
ProgStack(w) ==
    Image(\h00, SetSp \o <<\h01, w % 256, w \div 256>> \o
                <<\hC5, \hF1, \hF5, \hF1, \hF5, \hD1, \hD5, \hD1, \hD5, \hE1,
                  \hE5, \hE1, \hC5, \hC1>> \o Halt)

\* CALL 0x0010; NOP, with RET at 0x0010
ProgCall ==
    Image(\h00, SetSp \o <<\hCD, \h10, \h00, \h00>> \o Halt) @@
    Image(\h10, <<\hC9>>)

\* RETI at 0x0030 and the handlers: 0x0040 NOP; RETI  0x0048 RETI
\* 0x0050 NOP; RETI
Handlers ==
    Image(\h30, <<\hD9>>) @@ Image(\h40, <<\h00, \hD9>>) @@
    Image(\h48, <<\hD9>>) @@ Image(\h50, <<\h00, \hD9>>)

\* IE and IF loaded, then EI; NOP; CALL 0x0030 (a RETI); NOP; DI; IE and IF
\* loaded again; NOP; NOP
LoadIeIf(ie, ifl) == <<\h3E, ie, \hE0, \hFF, \h3E, ifl, \hE0, \h0F>>
ProgInt(ie, ifl) ==
    Image(\h00, SetSp \o LoadIeIf(ie, ifl) \o
                <<\hFB, \h00, \hCD, \h30, \h00, \h00, \hF3>> \o
                LoadIeIf(ie, ifl) \o <<\h00, \h00>> \o Halt) @@ Handlers
IntSetups == {<<\h01, \h01>>, <<\h05, \h04>>, <<\h05, \h05>>, <<\h01, \h00>>}

\* The opcodes whose handlers Dexec_op holds, crash and STOP left out
ModelledOpcodes ==
    {op \in 0..255 :
        \/ op \in {\h00, \h18, \hC3, \hC9, \hD9, \hCD, \hE9, \hF3, \hF9, \hFB}
        \/ op \in LdOpcodes
        \/ op < \h40 /\ op % 16 \in {\h01, \h03, \h0B}
        \/ op < \h40 /\ op % 8 \in {4, 5}
        \/ op \in {\h20, \h28, \h30, \h38}
        \/ op >= \hC0 /\ op % 8 \in {0, 2, 4} /\ op < \hE0
        \/ op >= \hC0 /\ op % 16 \in {1, 5}
        \/ op >= \hC0 /\ op % 8 = 7}

\* One instruction with operand bytes 0x20, 0x00, run with HL = 0xC000 and
\* with F = 0x00 or, after LD BC,0x00F0; PUSH BC; POP AF, with F = 0xF0
FlagSetups == {<<>>, <<\h01, \hF0, \h00, \hC5, \hF1>>}
ProgOp(op, fs) ==
    Image(\h00, SetSp \o <<\h21, \h00, \hC0>> \o fs \o <<op, \h20, \h00>> \o Halt)

\* LD r,v for the 8-bit operand with index i (LD (HL),v for i = 6)
LoadR8(i, v) == <<\h06 + 8 * i, v>>

\* RES b,r and SET b,r of the CB page, for every bit and operand, run on the
\* operand values CbVals with F = 0x00 and F = 0xF0
CbOpcodes == \h80..\hFF
CbVals == {\h00, \hA5, \hFF}
ProgCb(cb, v, fs) ==
    Image(\h00, SetSp \o <<\h21, \h00, \hC0>> \o fs \o LoadR8(cb % 8, v) \o
                <<\hCB, cb>> \o Halt)

\* ADD A,r / ADC A,r (0x80..0x8F) and ADD A,n / ADC A,n, run on A in AddAs
\* and the operand in AddVals with the carry flag clear and set
AddOpcodes == (\h80..\h8F) \cup {\hC6, \hCE}
AddAs == {\h00, \h0F, \h80, \hFF}
AddVals == {\h00, \h01, \h7F, \hF1, \hFF}
ProgAdd(op, a, v, fs) ==
    Image(\h00, SetSp \o <<\h21, \h00, \hC0>> \o fs \o <<\h3E, a>> \o
                (IF op >= \hC0 THEN <<op, v>> ELSE LoadR8(op % 8, v) \o <<op>>) \o
                Halt)

Programs ==
    {ProgStack(w) : w \in StackWords} \cup {ProgCall}
    \cup {ProgInt(x[1], x[2]) : x \in IntSetups}
    \cup {ProgOp(op, fs) : op \in ModelledOpcodes, fs \in FlagSetups}
    \cup {ProgCb(cb, v, fs) : cb \in CbOpcodes, v \in CbVals, fs \in FlagSetups}
    \cup {ProgAdd(op, a, v, fs) :
            op \in AddOpcodes, a \in AddAs, v \in AddVals, fs \in FlagSetups}

InitCpu ==
    /\ m \in {GameBoy_new(BlankCart, Bootrom_some(p), oc) :
                p \in Programs, oc \in BOOLEAN}
    /\ entry = Snapshot(m) /\ seen = Empty
    /\ InitRun /\ InitHistory

PushOpcodes == {\hC5, \hD5, \hE5, \hF5}
PopOpcodes == {\hC1, \hD1, \hE1, \hF1}
CallOpcodes == {\hCD, \hC4, \hCC, \hD4, \hDC}

\* The word the step pushed last, if it pushed one: a is the machine after
\* the dispatch, op the opcode fetched, d the machine after dexec
Pushed(x, a, op, d) ==
    IF op \in PushOpcodes
    THEN [addr |-> Wrap16(a.regs.sp + 65534),
          val |-> Registers_readw(a.regs, R16Stack((op - \hC0) \div 16)),
          by |-> R16Stack((op - \hC0) \div 16)]
    ELSE IF op \in CallOpcodes /\ d.regs.sp # a.regs.sp
    THEN [addr |-> Wrap16(a.regs.sp + 65534), val |-> Wrap16(a.regs.pc + 3),
          by |-> "call"]
    ELSE IF op >= \hC0 /\ op % 8 = 7
    THEN [addr |-> Wrap16(a.regs.sp + 65534), val |-> Wrap16(a.regs.pc + 1),
          by |-> "rst"]
    ELSE IF a.regs.sp # x.regs.sp
    THEN [addr |-> Wrap16(x.regs.sp + 65534), val |-> x.regs.pc, by |-> "int"]
    ELSE lastw

\* Cpu::step
CpuStep ==
    /\ Ok(m) /\ steps < MaxCpuSteps
    /\ \E a \in {Cpu_step_ack(m)} :
       \E d \in {Cpu_step_exec(a)} :
       \E b \in {Interconnect_step(d.m, d.ticks)} :
       \E op \in {IF Ok(a) /\ ~Readb_panics(a, a.regs.pc)
                  THEN Readb(a, a.regs.pc) ELSE -1} :
          /\ m' = b.m /\ last' = d.ticks /\ raised' = b.reqs
          /\ seen' = IF op >= 0 THEN Visit(Empty, op) ELSE Empty
          /\ lastw' = IF Ok(d.m) THEN Pushed(m, a, op, d.m) ELSE lastw
    /\ entry' = Snapshot(m)
    /\ acked' = IF m.ic.ime THEN get_interrupt(m.ic) ELSE NoInterrupt
    /\ steps' = steps + 1
    /\ UNCHANGED <<at, timeslice, ticks, runs, elapsed, vbl, divw, nwrites>>

NextCpu == CpuStep

SpecCpu == InitCpu /\ [][NextCpu]_vars

--------------------------------------------------------------------------
(* Claims on the whole machine.                                            *)

\* The number of the lowest set bit of v > 0
RECURSIVE LowestBit(_)
LowestBit(v) == IF v % 2 = 1 THEN 0 ELSE 1 + LowestBit(v \div 2)

\* IF & IE of a snapshot or a controller
Pending(x) == BitAnd(x.iflag, x.ie)

\* The IF bits of the kinds in reqs
Requested(reqs) == RequestAll(InterruptController_new, reqs).iflag

\* The last action returned from Cpu::step; entry is that step's entry state
StepReturned == at \in {"ack", "idle"} /\ steps >= 1

\* C1 interrupt dispatch: when a step starts with IME true and IF & IE
\* non-zero, then after its acknowledge part the kind of the lowest set bit
\* of IF & IE has been selected, exactly that bit of IF is cleared, IME is
\* false, SP is 2 lower, the word at SP is the entry PC and PC is the
\* kind's vector 0x40 + 8 * bit.
C1_Dispatch ==
    (at = "exec" /\ entry.ime /\ Pending(entry) # 0) =>
        LET k == LowestBit(Pending(entry)) IN
        /\ Ok(m)
        /\ k <= 4 /\ acked = Interrupts[k + 1]
        /\ m.ic.iflag = entry.iflag - 2 ^ k
        /\ ~m.ic.ime
        /\ m.regs.sp = Wrap16(entry.sp + 65534)
        /\ Readw(m, m.regs.sp) = entry.pc
        /\ m.regs.pc = \h0040 + 8 * k

\* The example of C1: IE = 0xFF, IF = 0x1F dispatches to 0x0040, IF = 0x1E
C1_Witness ==
    /\ at = "exec" /\ entry.ime /\ entry.ie = \hFF /\ entry.iflag = \h1F
    /\ m.regs.pc = \h0040 /\ m.ic.iflag = \h1E

\* The step of C2: IME = true, IE = 0x01, IF = 0x01, PC = 0x0300, SP = 0xFFFE
C2_Entry ==
    [pc |-> \h0300, sp |-> \hFFFE, ime |-> TRUE, iflag |-> \h01, ie |-> \h01]

Kinds(reqs) == {reqs[i] : i \in DOMAIN reqs}

\* C3 step ordering: a step goes acknowledge, execute, bus advance; the bus
\* advance steps the timer and then the PPU, only sets the IF bits they
\* request and dispatches nothing (PC, SP, IME and the other registers are
\* untouched); a kind requested by the last bus advance whose IE bit is set,
\* with no lower bit of IF & IE pending and IME true when the next step
\* starts, is dispatched by that step's acknowledge part, before its
\* instruction is fetched: PC is the vector and the pushed word is the PC
\* the step started with.
C3_StepOrder ==
    [][/\ (at = "ack" => at' = "exec")
       /\ (at = "exec" => at' = "bus")
       /\ (at = "bus" => at' \in {"ack", "idle"})
       /\ (at = "bus" =>
             /\ raised' = Timer_step(m.timer, last).reqs \o
                          Gpu_step(m.gpu, last, m.oc).reqs
             /\ m'.ic.iflag = BitOr(m.ic.iflag, Requested(raised'))
             /\ m'.ic.ime = m.ic.ime /\ m'.regs = m.regs /\ acked' = acked)
       /\ \A i \in 1..5 :
            (/\ at = "ack" /\ m.ic.ime
             /\ Interrupts[i] \in Kinds(raised)
             /\ BitAnd(m.ic.ie, Interrupt_bit(Interrupts[i])) # 0
             /\ BitAnd(Pending(m.ic), Interrupt_bit(Interrupts[i]) - 1) = 0)
            => /\ at' = "exec" /\ Ok(m') /\ acked' = Interrupts[i]
               /\ m'.regs.pc = Interrupt_get_addr(Interrupts[i])
               /\ Readw(m', m'.regs.sp) = m.regs.pc
               /\ BitAnd(m'.ic.iflag, Interrupt_bit(Interrupts[i])) = 0]_vars

\* A timer interrupt requested by one step's bus advance is dispatched by
\* the next step
C3_Witness ==
    /\ at = "exec" /\ acked = TimerInt /\ TimerInt \in Kinds(raised)
    /\ m.regs.pc = \h0050

\* C5 run(timeslice): the accumulated count has every step's cycles in it
\* (at least 4 for each step made); a run that has returned made at least
\* one step, its total is greater than timeslice and the total before its
\* last step was not; every step that hits no fatal opcode or bus access
\* returns at least 4 cycles; and nothing but a fatal opcode or bus access
\* stops a run before it returns.
C5_Run ==
    /\ m.fault # "overflow"
    /\ steps >= 1 => U32_ge(ticks, U32(4 * steps))
    /\ (at = "idle" /\ runs >= 1 /\ Ok(m)) =>
          /\ steps >= 1
          /\ U32_gt(ticks, timeslice)
          /\ ~U32_gt(U32_sub(ticks, last), timeslice)
    /\ (at = "bus" /\ Ok(m)) => last >= 4

\* run(0) has returned after one step
C5_Witness ==
    at = "idle" /\ runs >= 1 /\ Ok(m) /\ timeslice = U32(0) /\ steps = 1

\* C9 initial state without a boot ROM: AF = 0x01B0, BC = 0x0013,
\* DE = 0x00D8, HL = 0x014D, SP = 0xFFFE, PC = 0x0100, LCDC reads 0x91 and
\* BGP reads 0xFC.
C9_FreshState ==
    (at = "idle" /\ runs = 0 /\ ~Bootrom_is_used(m.brom)) =>
        /\ Ok(m)
        /\ Registers_readw(m.regs, "AF") = \h01B0
        /\ Registers_readw(m.regs, "BC") = \h0013
        /\ Registers_readw(m.regs, "DE") = \h00D8
        /\ Registers_readw(m.regs, "HL") = \h014D
        /\ Registers_readw(m.regs, "SP") = \hFFFE
        /\ Registers_readw(m.regs, "PC") = \h0100
        /\ Readb(m, \hFF40) = \h91
        /\ Readb(m, \hFF47) = \hFC

\* A fresh machine without a boot ROM whose registers other than PC and
\* whose LCDC and BGP are as C9 states
C9_Witness ==
    /\ at = "idle" /\ runs = 0 /\ ~Bootrom_is_used(m.brom) /\ Ok(m)
    /\ Registers_readw(m.regs, "AF") = \h01B0
    /\ Registers_readw(m.regs, "SP") = \hFFFE
    /\ Readb(m, \hFF40) = \h91 /\ Readb(m, \hFF47) = \hFC

--------------------------------------------------------------------------
(* Claims on the PPU with register writes (SpecLcd).                       *)

\* The last action was a bus write to address a / was a call of Gpu::step
Wrote(a) == lastw'.addr = a
Stepped == lastw' = NoWrite

\* C13 LCD disable: a write to LCDC that takes bit 7 from 1 to 0 makes LY 0,
\* and a PPU step with bit 7 clear leaves LY, the mode, the countdown and the
\* framebuffer unchanged and requests no interrupt.
C13_LcdOff ==
    [][/\ (Wrote(\hFF40) /\ m.gpu.lcd_enable /\ ~m'.gpu.lcd_enable) =>
             m'.gpu.ly = 0
       /\ (Stepped /\ ~m.gpu.lcd_enable) =>
             /\ m'.gpu.ly = m.gpu.ly /\ m'.gpu.mode = m.gpu.mode
             /\ m'.gpu.ticks = m.gpu.ticks /\ m'.gpu.buffer = m.gpu.buffer
             /\ raised' = <<>> /\ m'.ic.iflag = m.ic.iflag]_vars

\* The PPU was stepped after the LCD had been switched off in VBlank
C13_Witness ==
    /\ Ok(m) /\ lastw = NoWrite /\ ~m.gpu.lcd_enable
    /\ m.gpu.mode = Mode_VBlank /\ m.gpu.ly = 0

\* Video addresses written in SpecLcd
LcdVideoAddrs == {w[1] : w \in {x \in LcdWrites : InVideo(x[1])}}

\* C14 access with the LCD off: while LCDC bit 7 is 0, bus reads of tileset,
\* tilemaps and OAM return the stored bytes and a bus write to them is stored.
C14_LcdOffAccess ==
    (Ok(m) /\ ~m.gpu.lcd_enable) =>
        /\ \A a \in LcdVideoAddrs : Readb(m, a) = Stored(m.gpu, a)
        /\ InVideo(lastw.addr) =>
              Stored(m.gpu, lastw.addr) = StoreForm(lastw.addr, lastw.val)

\* C15 LCD re-enable: a write to LCDC that takes bit 7 from 0 to 1, LY being
\* 0 as the switch-off left it, leaves the PPU in OAM-search with LY = 0 and
\* a countdown of 80.
C15_LcdOn ==
    [][(Wrote(\hFF40) /\ ~m.gpu.lcd_enable /\ m'.gpu.lcd_enable /\ m.gpu.ly = 0) =>
          /\ m'.gpu.mode = Mode_AccessingOam
          /\ m'.gpu.ly = 0
          /\ m'.gpu.ticks = ACCESSING_OAM_CYCLES]_vars

\* The mode code in STAT bits 1:0
ModeCode(mode) ==
    CASE mode = Mode_HBlank -> 0
      [] mode = Mode_VBlank -> 1
      [] mode = Mode_AccessingOam -> 2
      [] mode = Mode_AccessingVram -> 3

\* C16 STAT read: in every state the byte read at 0xFF41 has bit 2 set
\* exactly when LY = LYC and bits 1:0 equal to the mode code.
C16_StatRead ==
    Ok(m) =>
        /\ (Bit(Readb(m, \hFF41), 2) = 1) <=> (m.gpu.ly = m.gpu.lyc)
        /\ Readb(m, \hFF41) % 4 = ModeCode(m.gpu.mode)

\* The step ended HBlank and began VBlank
EntersVBlank == m.gpu.mode = Mode_HBlank /\ m'.gpu.mode = Mode_VBlank

\* C17 as stated: a PPU step requests VBlank exactly when it ends HBlank of
\* line 143 and enters VBlank with LY = 144, and then it requests LCDC-Stat
\* iff STAT bit 4 is set.
C17_VBlankOnly ==
    [][Stepped =>
        /\ (VBlank \in Kinds(raised')) <=>
              (EntersVBlank /\ m.gpu.ly = 143 /\ m'.gpu.ly = 144)
        /\ EntersVBlank =>
              ((LCDCStat \in Kinds(raised')) <=>
                  (BitAnd(m.gpu.stat, STAT_VBLANK_INT) # 0))]_vars

\* C17 amended: a PPU step requests VBlank exactly when it ends HBlank and
\* enters VBlank; the HBlank exit of line 143 is such a step and makes LY
\* 144; the step requests LCDC-Stat iff STAT bit 4 is set or the new LY
\* equals LYC and STAT bit 6 is set; the line advances inside VBlank and all
\* other steps request no VBlank.
C17_VBlankTiming ==
    [][Stepped =>
        /\ (VBlank \in Kinds(raised')) <=> EntersVBlank
        /\ Count(raised', VBlank) <= 1
        /\ (m.gpu.mode = Mode_HBlank /\ m.gpu.ly = 143 /\
            m'.gpu.mode # Mode_HBlank) =>
              EntersVBlank /\ m'.gpu.ly = 144
        /\ EntersVBlank =>
              ((LCDCStat \in Kinds(raised')) <=>
                  \/ BitAnd(m.gpu.stat, STAT_VBLANK_INT) # 0
                  \/ /\ m'.gpu.ly = m.gpu.lyc
                     /\ BitAnd(m.gpu.stat, STAT_CMP_INT) # 0)]_vars

\* Line 143 has ended: VBlank was requested, LCDC-Stat was not (STAT bit 4
\* clear, LYC not 144)
C17_Witness ==
    /\ Ok(m) /\ lastw = NoWrite /\ raised = <<VBlank>>
    /\ m.gpu.mode = Mode_VBlank /\ m.gpu.ly = 144

\* C18 LY/LYC compare and OAM interrupt: after a PPU step that changed LY,
\* STAT bit 2 is set iff the new LY equals LYC, and LCDC-Stat is requested
\* when they are equal and STAT bit 6 is set; a step that enters OAM-search
\* requests LCDC-Stat when STAT bit 5 is set; with STAT bits 6:3 clear no
\* step requests LCDC-Stat or sets IF bit 1.
C18_CmpAndOam ==
    [][Stepped =>
        /\ (m'.gpu.ly # m.gpu.ly) =>
              /\ (BitAnd(m'.gpu.stat, STAT_CMP) # 0) <=> (m'.gpu.ly = m'.gpu.lyc)
              /\ (m'.gpu.ly = m'.gpu.lyc /\ BitAnd(m.gpu.stat, STAT_CMP_INT) # 0)
                    => LCDCStat \in Kinds(raised')
        /\ (m.gpu.mode # Mode_AccessingOam /\ m'.gpu.mode = Mode_AccessingOam /\
            BitAnd(m.gpu.stat, STAT_OAM_INT) # 0) =>
              LCDCStat \in Kinds(raised')
        /\ (BitAnd(m.gpu.stat, \h78) = 0) =>
              /\ LCDCStat \notin Kinds(raised')
              /\ Bit(m'.ic.iflag, 1) = Bit(m.ic.iflag, 1)]_vars

\* LY has become 144 = LYC with only STAT bit 6 set: the compare flag is set
\* and LCDC-Stat was requested
C18_Witness ==
    /\ Ok(m) /\ lastw = NoWrite /\ m.gpu.ly = 144 /\ m.gpu.lyc = 144
    /\ m.gpu.stat = BitOr(STAT_CMP_INT, STAT_CMP)
    /\ LCDCStat \in Kinds(raised)

--------------------------------------------------------------------------
(* Claims on the MBC1 cartridge (SpecCart)                                 *)

RomBanks(c) == c.rom_len \div ROM_BANK_SZ
ReadLast(a) == Get(seen, a) = 1
ZeroBankWrite ==
    lastw.addr >= \h2000 /\ lastw.addr <= \h3FFF /\ BitAnd(lastw.val, \h1F) = 0

\* C19 as stated: after any bank-control writes the low five bits of
\* rom_bank are not 0; a read of 0x4000..0x7FFF is never served from bank
\* 0x00, 0x20, 0x40 or 0x60; and a read of 0x4000 that follows a write of
\* 0x00 to 0x2000..0x3FFF returns byte 0 of bank 1.
C19_ZeroBankRemap ==
    Ok(m) =>
        /\ BitAnd(m.cart.rom_bank, \h1F) # 0
        /\ ReadLast(\h4000) =>
               last \notin {BankTag(b) : b \in {\h00, \h20, \h40, \h60}}
        /\ (ReadLast(\h4000) /\ lastw.addr >= \h2000 /\ lastw.addr <= \h3FFF
               /\ lastw.val = \h00) => last = BankTag(1)

\* C19 as the code has it: after any bank-control writes the low five bits
\* of rom_bank are not 0 (a write to 0x2000..0x3FFF whose low five bits are 0
\* stores 1 in them and keeps bits 6:5); a read of 0x4000 returns byte 0 of
\* bank rom_bank modulo the number of banks of the ROM, which is none of
\* banks 0x00, 0x20, 0x40, 0x60 when the ROM has 32 banks or more; after a
\* write of 0x00 to 0x2000..0x3FFF it is byte 0 of bank 1 when bits 6:5 of
\* rom_bank are 0.
C19_ZeroBankRemapped ==
    Ok(m) =>
        /\ BitAnd(m.cart.rom_bank, \h1F) # 0
        /\ ReadLast(\h4000) =>
               /\ last = BankTag(m.cart.rom_bank % RomBanks(m.cart))
               /\ RomBanks(m.cart) >= 32 =>
                      last \notin {BankTag(b) : b \in {\h00, \h20, \h40, \h60}}
        /\ ZeroBankWrite =>
               /\ BitAnd(m.cart.rom_bank, \h1F) = 1
               /\ (ReadLast(\h4000) /\ BitAnd(m.cart.rom_bank, \h60) = 0) =>
                      last = BankTag(1)

\* A write whose low five bits are 0 was remapped while bits 6:5 were set,
\* and 0x4000 was then read from bank 0x21 of the 128-bank ROM
C19_Witness ==
    /\ Ok(m) /\ ZeroBankWrite /\ lastw.val = \h00 /\ ReadLast(\h4000)
    /\ RomBanks(m.cart) = 128 /\ m.cart.rom_bank = \h21 /\ last = BankTag(\h21)

\* C20: a write to 0x4000..0x5FFF with mode_select false replaces bits 6:5
\* of rom_bank with the low two bits written and leaves ram_bank; with
\* mode_select true it replaces ram_bank and leaves rom_bank.  mode_select
\* is false at power-on and becomes bit 0 of a value written to
\* 0x6000..0x7FFF.
C20_ModeRouting ==
    /\ ~m.cart.rom_mode_select
    /\ [][(Ok(m) /\ lastw'.addr >= \h0000 /\ seen' = Empty) =>
          /\ (lastw'.addr >= \h4000 /\ lastw'.addr <= \h5FFF
                 /\ ~m.cart.rom_mode_select) =>
                 /\ m'.cart.rom_bank =
                        BitOr(BitAnd(m.cart.rom_bank, \h1F),
                              BitAnd(lastw'.val, \h03) * 32)
                 /\ m'.cart.ram_bank = m.cart.ram_bank
          /\ (lastw'.addr >= \h4000 /\ lastw'.addr <= \h5FFF
                 /\ m.cart.rom_mode_select) =>
                 /\ m'.cart.ram_bank = BitAnd(lastw'.val, \h03)
                 /\ m'.cart.rom_bank = m.cart.rom_bank
          /\ (lastw'.addr >= \h6000 /\ lastw'.addr <= \h7FFF) =>
                 m'.cart.rom_mode_select = (BitAnd(lastw'.val, \h01) = 1)]_vars

\* C21: a read of cartridge RAM (0xA000..0xBFFF) returns 0xFF on a cartridge
\* without MBC and on an MBC1 cartridge whose ram_enable is false, and
\* ram_enable is true exactly when the last write to 0x0000..0x1FFF had low
\* nibble 0x0A.
C21_RamDisabledReads ==
    Ok(m) =>
        /\ (ReadLast(\hA000) /\ (m.cart.mbc = Mbc_None \/ ~m.cart.ram_enable)) =>
               last = \hFF
        /\ (m.cart.mbc = Mbc_One /\ lastw.addr >= \h0000 /\ lastw.addr <= \h1FFF) =>
               (m.cart.ram_enable <=> BitAnd(lastw.val, \h0F) = \h0A)

--------------------------------------------------------------------------
(* Claims on the I/O page (SpecMmio)                                       *)

\* C22: for every address of 0xFF00..0xFF7F that is not a listed register,
\* and for 0xFF50, a read returns 0 without a fault; a write to an unlisted
\* address changes nothing, and a write to 0xFF50 changes the boot latch only.
C22_MmioTotal ==
    [][Ok(m) =>
          /\ \A a \in UnlistedMmio \cup {BootLatch} :
                 (seen' # Empty /\ Get(seen', a) = 1) => (Ok(m') /\ last' = 0)
          /\ \A a \in UnlistedMmio :
                 (seen' = Empty /\ lastw'.addr = a) => m' = m
          /\ (seen' = Empty /\ lastw'.addr = BootLatch) =>
                 m' = [m EXCEPT !.boot_mode = m'.boot_mode]]_vars

--------------------------------------------------------------------------
(* Claims on instructions (SpecCpu)                                        *)

\* The step fetched opcode op / the state follows a step that fetched op
Fetches(op) == Get(seen', op) = 1
Fetched(op) == Get(seen, op) = 1

\* C23: the low four bits of F are zero in every reachable state; POP qq of
\* a stack word W leaves W & 0xFFF0 in AF and W in BC, DE, HL.
C23_FlagNibble ==
    /\ [](Ok(m) => BitAnd(m.regs.f, \h0F) = 0)
    /\ [][\A i \in 0..3 :
            (Ok(m') /\ Fetches(\hC1 + 16 * i) /\ acked' = NoInterrupt) =>
               Registers_readw(m'.regs, R16Stack(i)) =
                  IF i = 3 THEN Readw(m, m.regs.sp) - (Readw(m, m.regs.sp) % 16)
                  ELSE Readw(m, m.regs.sp)]_vars

\* C24: a step that executes DI ends with IME false, one that executes EI or
\* RETI ends with IME true and RETI sets PC to the word popped; EI and DI
\* leave IE and IF; IME becomes true in no other step, and a step dispatches
\* only when it is entered with IME true, as it does when an enabled kind is
\* pending.
C24_ImeControl ==
    [][(Ok(m) /\ Ok(m')) =>
          /\ Fetches(\hF3) => ~m'.ic.ime
          /\ (Fetches(\hFB) \/ Fetches(\hD9)) => m'.ic.ime
          /\ ((Fetches(\hF3) \/ Fetches(\hFB)) /\ acked' = NoInterrupt) =>
                (m'.ic.ie = m.ic.ie /\ m'.ic.iflag = m.ic.iflag)
          /\ (Fetches(\hD9) /\ acked' = NoInterrupt) =>
                m'.regs.pc = Readw(m, m.regs.sp)
          /\ (~m.ic.ime /\ m'.ic.ime) => (Fetches(\hFB) \/ Fetches(\hD9))
          /\ acked' # NoInterrupt => m.ic.ime
          /\ (m.ic.ime /\ BitAnd(Pending(m.ic), \h1F) # 0) =>
                acked' # NoInterrupt]_vars

\* The T-cycle count of the LR35902 for opcode op executed with flags f
\* (conditional instructions: taken, not taken)
RefTaken(op, f) ==
    LET z == BitAnd(f, FLAG_Z) # 0
        c == BitAnd(f, FLAG_C) # 0
    IN CASE (op \div 8) % 4 = 0 -> ~z
         [] (op \div 8) % 4 = 1 -> z
         [] (op \div 8) % 4 = 2 -> ~c
         [] (op \div 8) % 4 = 3 -> c
RefCycles(op, f) ==
    CASE op \in {\h00, \hE9, \hF3, \hFB} -> 4
      [] op >= \h40 /\ op <= \h7F ->
           IF op % 8 = 6 \/ (op - \h40) \div 8 = 6 THEN 8 ELSE 4
      [] op \in {\h02, \h12, \h22, \h32, \h0A, \h1A, \h2A, \h3A} -> 8
      [] op < \h40 /\ op % 8 = 6 -> IF op = \h36 THEN 12 ELSE 8
      [] op \in {\hE0, \hF0} -> 12
      [] op \in {\hE2, \hF2} -> 8
      [] op \in {\hEA, \hFA} -> 16
      [] op \in {\h01, \h11, \h21, \h31} -> 12
      [] op = \hF9 -> 8
      [] op < \h40 /\ op % 16 \in {\h03, \h0B} -> 8
      [] op < \h40 /\ op % 8 \in {4, 5} -> IF op \in {\h34, \h35} THEN 12 ELSE 4
      [] op = \h18 -> 12
      [] op \in {\h20, \h28, \h30, \h38} -> IF RefTaken(op, f) THEN 12 ELSE 8
      [] op \in {\hC0, \hC8, \hD0, \hD8} -> IF RefTaken(op, f) THEN 20 ELSE 8
      [] op \in {\hC2, \hCA, \hD2, \hDA} -> IF RefTaken(op, f) THEN 16 ELSE 12
      [] op \in {\hC4, \hCC, \hD4, \hDC} -> IF RefTaken(op, f) THEN 24 ELSE 12
      [] op \in PopOpcodes -> 12
      [] op \in PushOpcodes -> 16
      [] op \in {\hC3, \hC9, \hD9} -> 16
      [] op = \hCD -> 24
      [] op >= \hC0 /\ op % 8 = 7 -> 16

\* C25: the count dexec returns for an opcode is the LR35902's count for it
C25_Timing ==
    [][\A op \in ModelledOpcodes :
          (Ok(m') /\ Fetches(op)) => last' = RefCycles(op, m.regs.f)]_vars

--------------------------------------------------------------------------
(* Claims on the PPU left to itself (SpecPpu)                              *)

\* A step of Gpu::step (the write that switches the LCD on feeds no cycles)
PpuStepped == elapsed' # elapsed
Edge(from, to) == m.gpu.mode = from /\ m'.gpu.mode = to

LineCycles == ACCESSING_OAM_CYCLES + ACCESSING_VRAM_CYCLES + HBLANK_CYCLES

\* The length of a mode as claimed; a VBlank line is as long as a drawn line
Duration(mode) ==
    CASE mode = Mode_AccessingOam -> ACCESSING_OAM_CYCLES
      [] mode = Mode_AccessingVram -> ACCESSING_VRAM_CYCLES
      [] mode = Mode_HBlank -> HBLANK_CYCLES
      [] mode = Mode_VBlank -> LineCycles

\* C27: the countdown is reduced by the cycles of each step; when it expires
\* the mode (or VBlank line) entered lasts 80 (OAM-search), 172 (VRAM-access),
\* 204 (HBlank) or 456 (VBlank line) cycles less the overshoot, and the PPU
\* re-enters OAM-search of line 0 exactly 70,224 cycles after it entered it.
C27_Durations ==
    [][(PpuStepped /\ Ok(m) /\ Ok(m')) =>
          LET left == m.gpu.ticks - (elapsed' - elapsed) IN
          /\ left > 0 => m'.gpu.ticks = left
          /\ left <= 0 =>
                /\ m'.gpu.ticks = left + Duration(m'.gpu.mode)
                /\ (Edge(Mode_VBlank, Mode_AccessingOam) /\ Get(seen', 0) = 2) =>
                      elapsed' - (ACCESSING_OAM_CYCLES - m'.gpu.ticks) = FRAME_CYCLES]_vars

--------------------------------------------------------------------------
(* Claims on registers of the I/O page (SpecMmio)                          *)

\* The step is a bus write to address a
Writes(a) == seen' = Empty /\ lastw'.addr = a

\* C28: a bus write of v to STAT (0xFF41) puts bits 6:3 of v into bits 6:3 of
\* the value read; bit 7, bit 2 (compare flag) and bits 1:0 (mode) read the
\* same before and after the write, and nothing else of the machine changes.
C28_StatWrite ==
    [][(Ok(m) /\ Writes(\hFF41)) =>
          /\ Ok(m')
          /\ BitAnd(Readb(m', \hFF41), \h78) = BitAnd(lastw'.val, \h78)
          /\ BitAnd(Readb(m', \hFF41), \h87) = BitAnd(Readb(m, \hFF41), \h87)
          /\ m' = [m EXCEPT !.gpu.stat = m'.gpu.stat]]_vars

\* The input clock selected by bits 1:0 of TAC
TacFreq(sel) ==
    CASE sel = 0 -> Freq4096
      [] sel = 1 -> Freq262144
      [] sel = 2 -> Freq65536
      [] sel = 3 -> Freq16384

\* C29: a bus write of any byte v to TAC (0xFF07) does not fault, makes the
\* timer's enable flag bit 2 of v and its input clock the one selected by
\* bits 1:0 of v, and a read of TAC then returns v & 0x07.
C29_TacWrite ==
    [][(Ok(m) /\ Writes(\hFF07)) =>
          /\ Ok(m')
          /\ m'.timer.enabled = (BitAnd(lastw'.val, \h04) # 0)
          /\ m'.timer.input_freq = TacFreq(BitAnd(lastw'.val, \h03))
          /\ Readb(m', \hFF07) = BitAnd(lastw'.val, \h07)]_vars

--------------------------------------------------------------------------
(* Claims on the stack (SpecCpu).  lastw is the word pushed last: where,   *)
(* what, and by which of PUSH qq, CALL, RST and the interrupt dispatch.    *)

\* The step dispatched no interrupt and starts with SP on the word pushed
\* last, which is still in memory
OnPushed(by) ==
    /\ acked' = NoInterrupt
    /\ lastw # NoWrite /\ lastw.by = by
    /\ m.regs.sp = lastw.addr
    /\ ~Readw_panics(m, lastw.addr) /\ Readw(m, lastw.addr) = lastw.val

\* C30: RETI executed with SP on the word an interrupt dispatch pushed, the
\* word untouched, returns to the PC and SP of the dispatch with IME true; RET
\* with SP on the word of a CALL resumes just after the CALL with SP as before
\* it; POP qq with SP on the word of a PUSH qq leaves qq and SP as before the
\* PUSH; a push moves SP down by 2 and stores the word there, a pop moves SP
\* up by 2.
C30_RoundTrip ==
    [][(Ok(m) /\ Ok(m')) =>
          /\ (Fetches(\hD9) /\ OnPushed("int")) =>
                /\ m'.regs.pc = lastw.val
                /\ m'.regs.sp = Wrap16(lastw.addr + 2)
                /\ m'.ic.ime
          /\ (Fetches(\hC9) /\ OnPushed("call")) =>
                /\ m'.regs.pc = lastw.val
                /\ m'.regs.sp = Wrap16(lastw.addr + 2)
          /\ \A i \in 0..3 :
                (Fetches(\hC1 + 16 * i) /\ OnPushed(R16Stack(i))) =>
                   /\ Registers_readw(m'.regs, R16Stack(i)) = lastw.val
                   /\ m'.regs.sp = Wrap16(lastw.addr + 2)
          /\ \A op \in PushOpcodes \cup {\hCD} :
                (Fetches(op) /\ acked' = NoInterrupt) =>
                   /\ m'.regs.sp = Wrap16(m.regs.sp + 65534)
                   /\ lastw'.addr = m'.regs.sp
                   /\ Readw(m', m'.regs.sp) = lastw'.val
          /\ (acked' # NoInterrupt /\ Fetches(\h00)) =>
                /\ lastw' = [addr |-> Wrap16(m.regs.sp + 65534),
                             val |-> m.regs.pc, by |-> "int"]
                /\ m'.regs.sp = lastw'.addr
                /\ Readw(m', m'.regs.sp) = m.regs.pc
          /\ \A op \in PopOpcodes \cup {\hC9, \hD9} :
                (Fetches(op) /\ acked' = NoInterrupt) =>
                   m'.regs.sp = Wrap16(m.regs.sp + 2)]_vars

\* RETI has returned from a handler entered by a dispatch, in a step that
\* started on the pushed word with IME false
C30_Witness ==
    /\ Ok(m) /\ Fetched(\hD9) /\ lastw # NoWrite /\ lastw.by = "int"
    /\ entry.sp = lastw.addr /\ ~entry.ime
    /\ m.regs.pc = lastw.val /\ m.regs.sp = Wrap16(lastw.addr + 2)
    /\ m.ic.ime

--------------------------------------------------------------------------
(* Claims on RES/SET and ADD/ADC (SpecCpu)                                 *)

\* The value of the 8-bit operand with index i: a register, or the byte at HL
Operand8(x, i) ==
    IF i = 6 THEN Readb(x, Registers_readw(x.regs, "HL"))
    ELSE Registers_readb(x.regs, R8(i).r)

\* The byte after the opcode the step fetches
Operand(x) == Readb(x, Wrap16(x.regs.pc + 1))

\* C31: RES b,r stores val & ~(1 << b) in its operand and SET b,r stores
\* val | (1 << b), for every bit b and operand (a register or (HL)); neither
\* changes a flag.
C31_ResSet ==
    [][\A cb \in CbOpcodes :
         (Ok(m) /\ Fetches(\hCB) /\ acked' = NoInterrupt /\ Operand(m) = cb) =>
            LET b == (cb % 64) \div 8
                val == Operand8(m, cb % 8)
            IN /\ Ok(m')
               /\ Operand8(m', cb % 8) =
                     IF cb >= \hC0 THEN BitOr(val, 2 ^ b)
                     ELSE BitAnd(val, Not8(2 ^ b))
               /\ m'.regs.f = m.regs.f]_vars

\* C32: ADD A,v and ADC A,v complete for every A, operand v and carry c (0 for
\* ADD, the C flag for ADC); A becomes (A + v + c) mod 256, Z is set exactly
\* when that is 0, N is clear, H is set exactly when the low nibbles and c sum
\* above 0xF, C exactly when A + v + c is above 0xFF.
C32_AddAdc ==
    [][\A op \in AddOpcodes :
         (Ok(m) /\ Fetches(op) /\ acked' = NoInterrupt) =>
            LET a == m.regs.a
                v == IF op >= \hC0 THEN Operand(m) ELSE Operand8(m, op % 8)
                c == IF op \in (\h88..\h8F) \cup {\hCE} /\ Cpu_check_flag(m, FLAG_C)
                     THEN 1 ELSE 0
                sum == a + v + c
            IN /\ Ok(m')
               /\ m'.regs.a = sum % 256
               /\ Cpu_check_flag(m', FLAG_Z) <=> (sum % 256 = 0)
               /\ ~Cpu_check_flag(m', FLAG_N)
               /\ Cpu_check_flag(m', FLAG_H) <=>
                     (BitAnd(a, \h0F) + BitAnd(v, \h0F) + c > \h0F)
               /\ Cpu_check_flag(m', FLAG_C) <=> (sum > \hFF)]_vars

--------------------------------------------------------------------------
(* Claims on the rendered line (SpecBus)                                   *)

\* The shade of pixel x of the line as the background is defined: the bit
\* 7 - xs mod 8 of the two bytes of the tile's row, the second byte giving
\* the high bit of the colour index, with x + SCX taken mod 256.  The tile is
\* picked from the tile number by LCDC bit 4 as render_background picks it.
RefShade(g, x) ==
    LET y == (g.ly + g.scroll_y) % 256
        xs == (x + g.scroll_x) % 256
        index == (y \div 8) * 32 + (xs \div 8)
        num == Get(IF ~g.bg_tile_map THEN g.tile_map1 ELSE g.tile_map2, index)
        tile == IF g.bg_tile_set THEN num ELSE AsI8(num) + 128
        lo == Get(g.tile_set, tile * 16 + (y % 8) * 2)
        hi == Get(g.tile_set, tile * 16 + (y % 8) * 2 + 1)
        b == 7 - (xs % 8)
    IN Palette_lookup(g.bgp, Bit(hi, b) * 2 + Bit(lo, b))

\* C33: when a line is rendered with the background on, rendering does not
\* fault on the tile-map index for any SCX and SCY, pixel x of the line is the
\* BGP shade of the colour index at bit 7 - xs mod 8 of the tile's row, and
\* every byte of the frame buffer is in 0..3.
C33_Background ==
    [][(Ok(m) /\ PpuStepped /\ m.gpu.bg_enable /\ m.gpu.lcd_enable
           /\ m.gpu.mode = Mode_AccessingVram
           /\ m.gpu.ticks - (elapsed' - elapsed) <= 0) =>
          /\ Ok(m')
          /\ \A x \in 0..(SCREEN_W - 1) :
                Get(m'.gpu.buffer, m.gpu.ly * SCREEN_W + x) = RefShade(m.gpu, x)
          /\ \A k \in DOMAIN m'.gpu.buffer : m'.gpu.buffer[k] \in 0..3]_vars

--------------------------------------------------------------------------
(* Claims on pending interrupts (Spec)                                     *)

\* The instruction about to be executed is LDH (0x0F),A: the CPU writes IF
WritesIF(x) == Readb(x, x.regs.pc) = \hE0 /\ Readb(x, Wrap16(x.regs.pc + 1)) = \h0F

\* C34: a bit of IF stays set until its kind is dispatched or the CPU writes
\* IF.  The acknowledge part of a step clears the bit of the kind it
\* dispatches, which is pending and enabled with IME true, and no other; when
\* IME is false or nothing pending is enabled it changes nothing of the
\* machine (no IF bit cleared, nothing pushed, no jump to a vector).  The
\* instruction leaves IF alone unless it writes IF, and the bus advance only
\* adds bits.
C34_NeverLost ==
    [][(Ok(m) /\ Ok(m')) =>
          /\ (at = "ack" /\ acked' # NoInterrupt) =>
                /\ m.ic.ime
                /\ BitAnd(Pending(m.ic), Interrupt_bit(acked')) # 0
                /\ m'.ic.iflag = BitAnd(m.ic.iflag, Not8(Interrupt_bit(acked')))
          /\ (at = "ack" /\ acked' = NoInterrupt) => m' = m
          /\ (at = "ack" /\ (~m.ic.ime \/ Pending(m.ic) = 0)) =>
                (acked' = NoInterrupt /\ m' = m)
          /\ (at = "exec" /\ ~WritesIF(m)) => m'.ic.iflag = m.ic.iflag
          /\ at = "bus" => BitAnd(m'.ic.iflag, m.ic.iflag) = m.ic.iflag
          /\ at = "idle" => m' = m]_vars

\* A step entered with IME false and an enabled kind pending has returned
\* with every bit of IF still set, after its bus advance requested a kind
C34_Witness ==
    /\ Ok(m) /\ at \in {"ack", "idle"} /\ steps >= 1
    /\ ~entry.ime /\ Pending(entry) # 0
    /\ raised # <<>>
    /\ BitAnd(m.ic.iflag, entry.iflag) = entry.iflag
    /\ m.regs.sp = entry.sp

\* The opcode of the instruction about to be executed
NextOp(x) == Readb(x, x.regs.pc)

\* C35: a dispatch happens only in the acknowledge part of a step, once, with
\* IME true, and leaves IME false; with IME false the acknowledge part
\* dispatches nothing, whatever is pending and enabled; and IME goes from
\* false to true only by executing RETI or EI.
C35_NoNesting ==
    [][(Ok(m) /\ Ok(m')) =>
          /\ (at = "ack" /\ acked' # NoInterrupt) =>
                (m.ic.ime /\ ~m'.ic.ime /\ at' = "exec")
          /\ (at = "ack" /\ ~m.ic.ime) =>
                (acked' = NoInterrupt /\ m'.regs = m.regs /\ m'.ic = m.ic)
          /\ at # "ack" => acked' = acked
          /\ at = "bus" => (m'.regs = m.regs /\ m'.ic.ime = m.ic.ime)
          /\ (~m.ic.ime /\ m'.ic.ime) =>
                (at = "exec" /\ NextOp(m) \in {\hD9, \hFB})]_vars

\* The serial interrupt has been dispatched (its bit of IF is clear again)
\* and its handler left by RET, so IME is still false; the timer, of higher
\* priority, has requested its interrupt since, and the acknowledge part of
\* the step has dispatched nothing
C35_Witness ==
    /\ Ok(m) /\ at = "exec" /\ acked = NoInterrupt
    /\ ~entry.ime /\ entry.ie = \hFF
    /\ BitAnd(entry.iflag, Interrupt_bit(Serial)) = 0
    /\ BitAnd(entry.iflag, Interrupt_bit(TimerInt)) # 0
    /\ m.regs.pc >= \h0300

\* C36: IF and IE hold only their five defined bits, and the acknowledge
\* part of a step selects one of the five kinds or none and does not fault,
\* whatever bus writes placed in IF and IE.
C36_SelectionTotal ==
    /\ [](Ok(m) => (m.ic.iflag < 32 /\ m.ic.ie < 32))
    /\ [][(at = "ack" /\ Ok(m)) =>
             /\ Ok(m')
             /\ acked' \in {Interrupts[i] : i \in 1..5} \cup {NoInterrupt}]_vars

--------------------------------------------------------------------------
(* Claims on the address map (SpecBus)                                     *)

\* Addresses read back after a write: in the tileset, in OAM, elsewhere
TilesetProbes == {\h8000, \h8001, \h8010, \h8800, \h9000, \h97FF}
OamProbes == {\hFE00, \hFE01, \hFE03, \hFE20, \hFE40, \hFE9F}
OtherProbes == {\h9800, \h9C00, \hC000, \hFF80}

\* The step is the bus write lastw'
BusWrote == nwrites' = nwrites + 1

\* C37: a bus write to a tileset address leaves the byte read at every other
\* tileset address as it was, a bus write to an OAM address leaves the byte
\* read at every other OAM address as it was, and a write to work RAM at
\* 0xC000..0xDDFF is read back at its echo, 0x2000 above, and nowhere else.
C37_NoAlias ==
    [][(Ok(m) /\ BusWrote) =>
          /\ InTileset(lastw'.addr) =>
                \A b \in TilesetProbes \ {lastw'.addr} : Readb(m', b) = Readb(m, b)
          /\ InOam(lastw'.addr) =>
                \A b \in OamProbes \ {lastw'.addr} : Readb(m', b) = Readb(m, b)
          /\ (lastw'.addr >= \hC000 /\ lastw'.addr <= \hDDFF) =>
                /\ Readb(m', lastw'.addr + \h2000) = lastw'.val
                /\ \A b \in TilesetProbes \cup OamProbes \cup OtherProbes :
                      b # lastw'.addr => Readb(m', b) = Readb(m, b)]_vars

--------------------------------------------------------------------------
(* Claims on cartridge RAM and the boot ROM window                         *)

\* The step is a bus read of address a
Reads(a) == seen' # Empty /\ Get(seen', a) = 1

\* C38: on an MBC1 cartridge with RAM enabled, a read of cartridge RAM
\* returns a byte, 0xFF for the empty RAM array, and does not fault, for
\* every ram_bank and mode_select.
C38_RamReadTotal ==
    [][(Ok(m) /\ Reads(\hA000) /\ m.cart.mbc = Mbc_One /\ m.cart.ram_enable) =>
          (Ok(m') /\ last' = \hFF)]_vars

\* C39: on a machine built without a boot ROM, a read of 0x0000 (as of every
\* address up to 0x00FF) returns the byte of the cartridge's ROM bank 0, not
\* the 0xFF of the absent boot ROM.
C39_CartExposed ==
    [][(Ok(m) /\ Reads(\h0000) /\ ~Bootrom_is_used(m.brom)) =>
          (Ok(m') /\ last' = Cartridge_read_rom(m.cart, \h0000))]_vars

--------------------------------------------------------------------------
(* Claims on LY under writes by the program (SpecLcd)                      *)

\* A step of the PPU, as against a write of the program
LcdStepped == lastw' = NoWrite

\* C40: in every state, also after writes of LY in any mode, LY is in
\* 0..153; a step of the PPU never faults, moves LY only to itself, to
\* LY + 1 or to 0, and renders a line only with LY <= 143, so that every
\* index LY*160 + x it writes is inside the frame buffer.
C40_LyInRange ==
    /\ [](Ok(m) => m.gpu.ly <= 153)
    /\ [][(Ok(m) /\ LcdStepped) =>
            /\ Ok(m')
            /\ m'.gpu.ly \in {m.gpu.ly, m.gpu.ly + 1, 0}
            /\ (Edge(Mode_AccessingVram, Mode_HBlank) => m.gpu.ly < SCREEN_H)]_vars

==========================================================================
